---- MODULE Spec2Model ----
(***************************************************************************)
(* Model of the news / blog search pipelines of python-gmail               *)
(* (src/module/news_utils.py, src/module/blog_utils.py).                   *)
(*                                                                         *)
(* Text is a sequence of characters.  A character is a one-character       *)
(* string; a Hangul syllable is written as the token h_<initial>_<medial>_ *)
(* <final> of its jamo (광 = "h_g_wa_ng"), other non-ASCII symbols as s_*. *)
(* Time is counted in whole hours.                                         *)
(***************************************************************************)
EXTENDS Integers, Sequences, FiniteSets, TLC

\* ------------------------------------------------------------------------
\* Character classes (Python's str / re semantics on the model's alphabet)
\* ------------------------------------------------------------------------

UpperLetters == <<"A", "B", "C", "D", "E", "F", "G", "H", "I", "J", "K", "L", "M", "N", "O",
                   "P", "Q", "R", "S", "T", "U", "V", "W", "X", "Y", "Z">>

LowerLetters == <<"a", "b", "c", "d", "e", "f", "g", "h", "i", "j", "k", "l", "m", "n", "o",
                   "p", "q", "r", "s", "t", "u", "v", "w", "x", "y", "z">>

Digits == {"0","1","2","3","4","5","6","7","8","9"}

AsciiLetters == {UpperLetters[i] : i \in 1..26} \cup {LowerLetters[i] : i \in 1..26}

\* The Hangul syllables (the class [가-힣]) that occur in the model's texts.
Hangul ==
  {"h__a_", "h__a_l", "h__a_n", "h__a_ng", "h__ae_", "h__e_", "h__eo_",
   "h__eo_l", "h__eo_m", "h__eo_ps", "h__eu_", "h__eu_l", "h__eu_m", "h__i_",
   "h__i_l", "h__i_m", "h__i_n", "h__i_ss", "h__o_", "h__o_l", "h__u_",
   "h__u_l", "h__u_n", "h__wi_", "h__wo_", "h__ya_k", "h__yeo_n", "h__yeo_ng",
   "h__yo_", "h__yo_ng", "h_b_a_k", "h_b_a_l", "h_b_a_n", "h_b_a_ng",
   "h_b_e_n", "h_b_eo_", "h_b_eu_", "h_b_eu_l", "h_b_i_", "h_b_o_", "h_b_o_n",
   "h_b_u_", "h_b_u_n", "h_b_yeo_", "h_ch_a_j", "h_ch_a_n", "h_ch_e_",
   "h_ch_eo_", "h_ch_i_", "h_ch_i_ng", "h_ch_oe_", "h_ch_u_l", "h_d_a_",
   "h_d_ae_", "h_d_e_", "h_d_eu_", "h_d_eu_ng", "h_d_i_", "h_d_o_ng",
   "h_d_oe_", "h_g_a_", "h_g_a_n", "h_g_a_ng", "h_g_ae_", "h_g_eo_m",
   "h_g_eo_n", "h_g_eu_", "h_g_eu_l", "h_g_i_", "h_g_o_", "h_g_o_ng",
   "h_g_u_", "h_g_u_k", "h_g_wa_", "h_g_wa_n", "h_g_wa_ng", "h_g_wo_n",
   "h_g_ye_", "h_g_yeo_", "h_g_yeo_l", "h_g_yeo_ng", "h_h_a_", "h_h_a_l",
   "h_h_a_m", "h_h_a_n", "h_h_a_p", "h_h_ae_ng", "h_h_ae_ss", "h_h_e_",
   "h_h_eo_m", "h_h_eu_", "h_h_o_ng", "h_h_oe_", "h_h_oe_k", "h_h_wa_",
   "h_h_wa_k", "h_h_ya_ng", "h_h_ye_", "h_h_yeo_p", "h_h_yu_", "h_j_a_",
   "h_j_a_k", "h_j_a_ng", "h_j_e_", "h_j_eo_", "h_j_eo_k", "h_j_eo_n",
   "h_j_eo_ng", "h_j_eu_", "h_j_i_", "h_j_i_n", "h_j_i_p", "h_j_o_", "h_j_u_",
   "h_j_u_ng", "h_j_yeo_", "h_k_e_", "h_k_eu_", "h_k_eu_l", "h_k_u_",
   "h_kk_ae_", "h_m_a_", "h_m_a_lk", "h_m_a_s", "h_m_ae_", "h_m_e_",
   "h_m_eo_", "h_m_i_", "h_m_o_", "h_m_o_k", "h_m_u_", "h_m_u_n", "h_n_a_",
   "h_n_a_l", "h_n_ae_", "h_n_e_", "h_n_eo_l", "h_n_eu_n", "h_n_i_",
   "h_n_oe_", "h_n_u_n", "h_n_yu_", "h_p_ae_", "h_p_eu_", "h_p_eu_n",
   "h_p_i_m", "h_p_o_", "h_p_o_n", "h_p_u_m", "h_p_yo_", "h_r_ae_n", "h_r_e_",
   "h_r_eo_l", "h_r_eo_n", "h_r_eu_l", "h_r_i_", "h_r_i_m", "h_r_i_ng",
   "h_r_o_", "h_r_o_k", "h_r_o_n", "h_r_yeo_n", "h_r_yo_", "h_r_yu_",
   "h_s_a_", "h_s_a_ng", "h_s_ae_k", "h_s_ae_ng", "h_s_e_", "h_s_eo_",
   "h_s_eo_n", "h_s_eu_", "h_s_eu_l", "h_s_eu_p", "h_s_i_", "h_s_i_l",
   "h_s_i_n", "h_s_o_", "h_s_o_ng", "h_s_u_", "h_s_yeo_n", "h_ss_i_",
   "h_t_a_", "h_t_ae_k", "h_t_e_m", "h_t_eo_l", "h_t_eu_", "h_t_eu_k",
   "h_t_i_", "h_t_i_ng", "h_t_o_", "h_t_o_ng", "h_t_u_"}

IsSpace(c) == c \in {" ", "\t", "\n"}

IsHangul(c) == c \in Hangul

IsDigit(c) == c \in Digits

IsAsciiLetter(c) == c \in AsciiLetters

\* \w of a Python 3 str pattern: letters (Hangul included), digits, underscore
IsWord(c) == IsAsciiLetter(c) \/ IsDigit(c) \/ IsHangul(c) \/ c = "_"

LowerChar(c) ==
  IF \E i \in 1..26 : UpperLetters[i] = c
  THEN LowerLetters[CHOOSE i \in 1..26 : UpperLetters[i] = c]
  ELSE c

\* str.lower()
Lower(s) == [i \in 1..Len(s) |-> LowerChar(s[i])]

\* ------------------------------------------------------------------------
\* String helpers
\* ------------------------------------------------------------------------

SetMin(S) == CHOOSE x \in S : \A y \in S : x <= y

SetMax(S) == CHOOSE x \in S : \A y \in S : x >= y

\* s[a:b] of Python for 0 <= a, as a 1-based sequence
Slice(s, a, b) == SubSeq(s, a + 1, IF b < Len(s) THEN b ELSE Len(s))

\* str.lstrip(), str.rstrip(), str.strip()
LStrip(s) ==
  LET nonsp == {i \in 1..Len(s) : ~IsSpace(s[i])}
  IN  IF nonsp = {} THEN <<>> ELSE SubSeq(s, SetMin(nonsp), Len(s))

RStrip(s) ==
  LET n == Len(s)
      trail == {k \in 0..n : \A j \in 0..(k - 1) : IsSpace(s[n - j])}
  IN  SubSeq(s, 1, n - SetMax(trail))

Strip(s) == LStrip(RStrip(s))

\* the characters of s[lo..hi] at the positions of K, in order
RECURSIVE KeepRange(_, _, _, _)
KeepRange(s, K, lo, hi) ==
  IF lo > hi THEN <<>>
  ELSE IF lo = hi THEN (IF lo \in K THEN <<s[lo]>> ELSE <<>>)
  ELSE LET mid == (lo + hi) \div 2
       IN  KeepRange(s, K, lo, mid) \o KeepRange(s, K, mid + 1, hi)

\* the characters of s at the positions of K, in order
KeepIdx(s, K) == KeepRange(s, K, 1, Len(s))

\* re.sub(r"\s+", " ", s)
CollapseWS(s) ==
  LET K == {i \in 1..Len(s) : ~IsSpace(s[i]) \/ i = 1 \/ ~IsSpace(s[i-1])}
      t == KeepIdx(s, K)
  IN  [i \in 1..Len(t) |-> IF IsSpace(t[i]) THEN " " ELSE t[i]]

\* sub is at position i of s
MatchAt(s, i, sub) ==
  /\ i >= 1
  /\ i + Len(sub) - 1 <= Len(s)
  /\ \A k \in 1..Len(sub) : s[i + k - 1] = sub[k]

\* sub in s
Contains(s, sub) == \E i \in 1..(Len(s) + 1) : MatchAt(s, i, sub)

\* s.startswith(sub), s.endswith(sub)
StartsWith(s, sub) == MatchAt(s, 1, sub)

EndsWith(s, sub) == Len(sub) <= Len(s) /\ MatchAt(s, Len(s) - Len(sub) + 1, sub)

\* the end of the maximal run of characters satisfying P that starts at i
\* (i - 1 when s[i] does not satisfy P)
RunEnd(s, i, P(_)) ==
  LET stops == {j \in i..Len(s) : ~P(s[j])}
  IN  IF stops = {} THEN Len(s) ELSE SetMin(stops) - 1

\* the maximal runs of characters satisfying P, as a set of <<first, last>>
Runs(s, P(_)) ==
  {<<i, RunEnd(s, i, P)>> :
     i \in {k \in 1..Len(s) : P(s[k]) /\ (k = 1 \/ ~P(s[k-1]))}}

NotSpace(c) == ~IsSpace(c)

\* set(s.split())
Words(s) == {SubSeq(s, r[1], r[2]) : r \in Runs(s, NotSpace)}

\* re.split on the single characters of D: the pieces between the delimiters
SplitOn(s, D) ==
  LET n == Len(s)
      idx == [i \in 1..(n + 2) |-> i - 1]
      cut == KeepIdx(idx, {1, n + 2} \cup {i + 1 : i \in {k \in 1..n : s[k] \in D}})
  IN  [k \in 1..(Len(cut) - 1) |-> SubSeq(s, cut[k] + 1, cut[k + 1] - 1)]

\* One left-to-right pass of re.sub(pattern, rep, s) over the start positions
\* lo..hi, for a pattern that matches no empty string: M(s, i) is the length
\* of the match that starts at i (0 when none).  out is the text produced,
\* next the first position not consumed.
RECURSIVE Scan(_, _, _, _, _)
Scan(s, M(_, _), rep, lo, hi) ==
  IF lo > hi THEN [out |-> <<>>, next |-> lo]
  ELSE IF lo = hi
  THEN LET m == M(s, lo)
       IN  IF m > 0 THEN [out |-> rep, next |-> lo + m]
                    ELSE [out |-> <<s[lo]>>, next |-> lo + 1]
  ELSE LET mid == (lo + hi) \div 2
           L == Scan(s, M, rep, lo, mid)
           R == Scan(s, M, rep, L.next, hi)
       IN  [out |-> L.out \o R.out, next |-> R.next]

\* re.sub(pattern, "", s)
RemoveMatches(s, M(_, _)) == Scan(s, M, <<>>, 1, Len(s)).out

\* s.replace(old, new), old not empty
Replace(s, old, new) ==
  LET OldAt(t, i) == IF MatchAt(t, i, old) THEN Len(old) ELSE 0
  IN  Scan(s, OldAt, new, 1, Len(s)).out

\* ------------------------------------------------------------------------
\* Title normalisation and similarity
\* ------------------------------------------------------------------------

WordOrSpace(c) == IsWord(c) \/ IsSpace(c)

_normalize_title(title) ==
  Lower(Strip(CollapseWS(SelectSeq(title, WordOrSpace))))

\* A similarity is the fraction <<numerator, denominator>>.
\* _calculate_similarity without the case of two empty word sets
_calculate_similarity_no_empty_case(str1, str2) ==
  LET words1 == Words(str1)
      words2 == Words(str2)
      intersection == words1 \cap words2
      union == words1 \cup words2
  IN  IF union # {}
      THEN <<Cardinality(intersection), Cardinality(union)>>
      ELSE <<0, 1>>

\* _calculate_similarity dividing by the size of the first word set
_calculate_similarity_of_first(str1, str2) ==
  LET words1 == Words(str1)
      words2 == Words(str2)
  IN  IF words1 = {} /\ words2 = {}
      THEN <<1, 1>>
      ELSE IF words1 # {}
           THEN <<Cardinality(words1 \cap words2), Cardinality(words1)>>
           ELSE <<0, 1>>

_calculate_similarity(str1, str2) ==
  LET words1 == Words(str1)
      words2 == Words(str2)
  IN  IF words1 = {} /\ words2 = {}
      THEN <<1, 1>>
      ELSE LET intersection == words1 \cap words2
               union == words1 \cup words2
           IN  IF union # {}
               THEN <<Cardinality(intersection), Cardinality(union)>>
               ELSE <<0, 1>>

\* sim > n/d
SimGt(sim, n, d) == sim[1] * d > n * sim[2]

\* sim < n/d
SimLt(sim, n, d) == sim[1] * d < n * sim[2]

\* _is_similar_title with the threshold of the summary step (0.7)
_is_similar_title_loose(title, seen_titles) ==
  \E seen_title \in seen_titles :
     SimGt(_calculate_similarity(_normalize_title(title), seen_title), 7, 10)

\* _is_similar_title rejecting at a similarity of one half as well
_is_similar_title_inclusive(title, seen_titles) ==
  \E seen_title \in seen_titles :
     ~SimLt(_calculate_similarity(_normalize_title(title), seen_title), 1, 2)

_is_similar_title(title, seen_titles) ==
  \E seen_title \in seen_titles :
     SimGt(_calculate_similarity(_normalize_title(title), seen_title), 1, 2)

\* ------------------------------------------------------------------------
\* Ad filter
\* ------------------------------------------------------------------------

ad_keywords ==
  << <<"h_g_wa_ng", "h_g_o_">>, <<"h_h_o_ng", "h_b_o_">>, <<"h_h_yeo_p", "h_ch_a_n">>,
     <<"h_j_e_", "h_h_yu_">>, <<"h_h_a_l", "h__i_n">>,
     <<"h__i_", "h_b_e_n", "h_t_eu_">>, <<"h_p_eu_", "h_r_o_", "h_m_o_", "h_s_yeo_n">>,
        <<"h_m_a_", "h_k_e_", "h_t_i_ng">>, <<"h_b_eu_", "h_r_ae_n", "h_d_eu_">>,
     <<"h_r_o_n", "h_ch_i_ng">>, <<"h__o_", "h_p_eu_n">>, <<"h_s_i_n", "h_j_e_", "h_p_u_m">>,
        <<"h_ch_u_l", "h_s_i_">>, <<"h_t_eu_k", "h_g_a_">>,
     <<"h_s_e_", "h__i_l">>, <<"h_k_u_", "h_p_o_n">>, <<"h_p_o_", "h__i_n", "h_t_eu_">>,
        <<"h_h_ye_", "h_t_ae_k">>, <<"h_m_u_", "h_r_yo_", "h_ch_e_", "h_h_eo_m">>,
     <<"[", "h_g_wa_ng", "h_g_o_", "]">>, <<"(", "h_g_wa_ng", "h_g_o_", ")">>, <<"[", "p", "r",
        "]">>, <<"(", "p", "r", ")">>,
     <<"[", "h_h_o_ng", "h_b_o_", "]">>, <<"(", "h_h_o_ng", "h_b_o_", ")">> >>

\* title and description are strings here; see AdCheckRaises for None
\* _is_ad_or_promotional looking at the title only
_is_ad_or_promotional_title_only(title, description) ==
  LET content == Lower(title)
  IN  \E k \in 1..Len(ad_keywords) : Contains(content, ad_keywords[k])

_is_ad_or_promotional(title, description) ==
  LET content == Lower(title \o <<" ">> \o description)
  IN  \E k \in 1..Len(ad_keywords) : Contains(content, ad_keywords[k])

\* ------------------------------------------------------------------------
\* Description cleaning
\* ------------------------------------------------------------------------

\* "요약 정보 없음"
NoSummaryInfo == <<"h__yo_", "h__ya_k", " ", "h_j_eo_ng", "h_b_o_", " ", "h__eo_ps", "h__eu_m">>

\* "기사 본문에서 상세 내용을 확인하세요"
NewsSeeArticle == <<"h_g_i_", "h_s_a_", " ", "h_b_o_n", "h_m_u_n", "h__e_", "h_s_eo_", " ",
                     "h_s_a_ng", "h_s_e_", " ", "h_n_ae_", "h__yo_ng", "h__eu_l", " ",
                     "h_h_wa_k", "h__i_n", "h_h_a_", "h_s_e_", "h__yo_">>

\* "블로그 본문에서 상세 내용을 확인하세요"
BlogSeeArticle == <<"h_b_eu_l", "h_r_o_", "h_g_eu_", " ", "h_b_o_n", "h_m_u_n", "h__e_",
                     "h_s_eo_", " ", "h_s_a_ng", "h_s_e_", " ", "h_n_ae_", "h__yo_ng",
                     "h__eu_l", " ", "h_h_wa_k", "h__i_n", "h_h_a_", "h_s_e_", "h__yo_">>

\* <[^>]+>
TagAt(s, i) ==
  IF s[i] = "<" /\ i + 1 <= Len(s) /\ s[i + 1] # ">"
  THEN LET closes == {j \in (i + 2)..Len(s) : s[j] = ">"}
       IN  IF closes = {} THEN 0 ELSE SetMin(closes) - i + 1
  ELSE 0

WsOnlyFrom(s, k) == \A j \in k..Len(s) : IsSpace(s[j])

\* \s*-\s*[name]+(?:suffix)?\s*$ : the match runs to the end of s.
\* A suffix made of name characters adds nothing to [name]+; Suffixes are the
\* alternatives that are not.
SourceTailAt(s, i, NameChar(_), Suffixes) ==
  LET n == Len(s)
      a == RunEnd(s, i, IsSpace) + 1
  IN  IF a > n \/ s[a] # "-" THEN 0
      ELSE LET b == RunEnd(s, a + 1, IsSpace) + 1
               e == RunEnd(s, b, NameChar)
           IN  IF \E k \in b..e :
                     \/ WsOnlyFrom(s, k + 1)
                     \/ \E suf \in Suffixes :
                          MatchAt(s, k + 1, suf) /\ WsOnlyFrom(s, k + 1 + Len(suf))
               THEN n - i + 1
               ELSE 0

HangulOrLetter(c) == IsHangul(c) \/ IsAsciiLetter(c)

HangulLetterDigit(c) == IsHangul(c) \/ IsAsciiLetter(c) \/ IsDigit(c)

\* \s*-\s*[가-힣A-Za-z]+(?:저널|뉴스|신문|일보|방송|미디어|닷컴|\.com|\.net|\.co\.kr)?\s*$
NewsDescSourceAt(s, i) ==
  SourceTailAt(s, i, HangulOrLetter, {<<".", "c", "o", "m">>, <<".", "n", "e", "t">>, <<".",
       "c", "o", ".", "k", "r">>})

\* \s*-\s*[가-힣A-Za-z0-9]+(?:블로그|BLOG|Blog)?\s*$  and
\* \s*-\s*[가-힣A-Za-z0-9]+(?:저널|뉴스|신문|일보|방송|미디어)?\s*$
NameTailAt(s, i) == SourceTailAt(s, i, HangulLetterDigit, {})

\* prefix[^\s]+
PrefixedRunAt(s, i, prefix) ==
  IF MatchAt(s, i, prefix)
  THEN LET b == i + Len(prefix)
           e == RunEnd(s, b, NotSpace)
       IN  IF e < b THEN 0 ELSE e - i + 1
  ELSE 0

\* https?://[^\s]+
HttpAt(s, i) ==
  LET m == PrefixedRunAt(s, i, <<"h", "t", "t", "p", "s", ":", "/", "/">>)
  IN  IF m > 0 THEN m ELSE PrefixedRunAt(s, i, <<"h", "t", "t", "p", ":", "/", "/">>)

\* www\.[^\s]+
WwwAt(s, i) == PrefixedRunAt(s, i, <<"w", "w", "w", ".">>)

\* [a-zA-Z0-9.-]
DomainChar(c) == IsAsciiLetter(c) \/ IsDigit(c) \/ c = "." \/ c = "-"

\* \b after position k, whose character is a word character
BoundaryAfter(s, k) == k >= Len(s) \/ ~IsWord(s[k + 1])

\* [a-zA-Z0-9.-]+\.(tld|...)\b : the greedy run gives back characters until
\* a dot followed by one of the tlds and a word boundary is found
DomainAt(s, i, tlds) ==
  LET e == RunEnd(s, i, DomainChar)
      Ok(d, t) == MatchAt(s, d + 1, t) /\ BoundaryAfter(s, d + Len(t))
      dots == {d \in (i + 1)..e : s[d] = "." /\ \E k \in 1..Len(tlds) : Ok(d, tlds[k])}
  IN  IF dots = {} THEN 0
      ELSE LET d == SetMax(dots)
               k == SetMin({j \in 1..Len(tlds) : Ok(d, tlds[j])})
           IN  d + Len(tlds[k]) - i + 1

\* (com|net|co\.kr|org)
NewsTlds == << <<"c", "o", "m">>, <<"n", "e", "t">>, <<"c", "o", ".", "k", "r">>, <<"o", "r",
               "g">> >>

\* (com|net|co\.kr|org|tistory\.com|naver\.com)
BlogTlds == << <<"c", "o", "m">>, <<"n", "e", "t">>, <<"c", "o", ".", "k", "r">>, <<"o", "r",
               "g">>, <<"t", "i", "s", "t", "o", "r", "y", ".", "c", "o", "m">>, <<"n", "a",
               "v", "e", "r", ".", "c", "o", "m">> >>

NewsDomainAt(s, i) == DomainAt(s, i, NewsTlds)

BlogDomainAt(s, i) == DomainAt(s, i, BlogTlds)

\* v\.[a-zA-Z0-9.-]+\.[a-zA-Z]{2,}
VDomainAt(s, i) ==
  IF MatchAt(s, i, <<"v", ".">>)
  THEN LET e == RunEnd(s, i + 2, DomainChar)
           dots == {d \in (i + 3)..e :
                      /\ s[d] = "."
                      /\ d + 2 <= Len(s)
                      /\ IsAsciiLetter(s[d + 1])
                      /\ IsAsciiLetter(s[d + 2])}
       IN  IF dots = {} THEN 0
           ELSE RunEnd(s, SetMax(dots) + 1, IsAsciiLetter) - i + 1
  ELSE 0

\* position of the first occurrence of sub in s, 0 when there is none
Find(s, sub) ==
  LET at == {i \in 1..(Len(s) + 1) : MatchAt(s, i, sub)}
  IN  IF at = {} THEN 0 ELSE SetMin(at)

\* the shortening of a description of more than 150 characters
\* (news_utils.py 362-370, blog_utils.py 335-342)
Shorten(clean_desc) ==
  IF Len(clean_desc) > 150
  THEN LET cut == Find(clean_desc, <<".", " ">>)
       IN  IF cut > 0
           THEN LET first == SubSeq(clean_desc, 1, cut - 1) \o <<".">>
                IN  IF Len(first) > 150
                    THEN Slice(first, 0, 147) \o <<".", ".", ".">>
                    ELSE first
           ELSE Slice(clean_desc, 0, 147) \o <<".", ".", ".">>
  ELSE clean_desc

\* the end of _clean_description (news_utils.py 355-372, blog_utils.py
\* 328-345): clean_desc is the description without its tags, sources and
\* addresses, placeholder the text returned in its place
FinishDescription(clean_desc, shortened, placeholder) ==
  IF Len(Strip(clean_desc)) < 20 THEN placeholder
  ELSE IF Strip(shortened) # <<>> THEN shortened
  ELSE placeholder

\* description is a string here (None is handled as the empty string is:
\* "not description")
news_clean_description(description) ==
  IF description = <<>> THEN NoSummaryInfo
  ELSE LET Finish(clean_desc) ==
             FinishDescription(clean_desc, Shorten(Strip(CollapseWS(clean_desc))),
                               NewsSeeArticle)
       IN  Finish(
             RemoveMatches(
               RemoveMatches(
                 RemoveMatches(
                   RemoveMatches(
                     RemoveMatches(
                       Strip(CollapseWS(RemoveMatches(description, TagAt))),
                       NewsDescSourceAt),
                     HttpAt),
                   WwwAt),
                 NewsDomainAt),
               VDomainAt))

blog_clean_description(description) ==
  IF description = <<>> THEN NoSummaryInfo
  ELSE LET Finish(clean_desc) ==
             FinishDescription(clean_desc, Shorten(Strip(CollapseWS(clean_desc))),
                               BlogSeeArticle)
       IN  Finish(
             RemoveMatches(
               RemoveMatches(
                 RemoveMatches(
                   RemoveMatches(
                     Strip(CollapseWS(RemoveMatches(description, TagAt))),
                     NameTailAt),
                   HttpAt),
                 WwwAt),
               BlogDomainAt))

\* ------------------------------------------------------------------------
\* Summaries
\* ------------------------------------------------------------------------

\* set(re.findall(r"[가-힣]{2,}", text))
HangulWords(text) ==
  {SubSeq(text, r[1], r[2]) : r \in {q \in Runs(text, IsHangul) : q[2] - q[1] + 1 >= 2}}

StartsWithAny(s, prefixes) == \E k \in 1..Len(prefixes) : StartsWith(s, prefixes[k])

EndsWithAny(s, suffixes) == \E k \in 1..Len(suffixes) : EndsWith(s, suffixes[k])

\* re.match(r"^[\d\s\-()]+$", sentence), for a stripped sentence
OnlyDigitsAndPunct(sentence) ==
  /\ sentence # <<>>
  /\ \A i \in 1..Len(sentence) :
        IsDigit(sentence[i]) \/ IsSpace(sentence[i]) \/ sentence[i] \in {"-", "(", ")"}

\* ("기자", "사진", "영상", "출처", "저작권", "▲", "■", "※", "이메일")
NewsBadStart ==
  << <<"h_g_i_", "h_j_a_">>, <<"h_s_a_", "h_j_i_n">>, <<"h__yeo_ng", "h_s_a_ng">>, <<"h_ch_u_l",
     "h_ch_eo_">>, <<"h_j_eo_", "h_j_a_k", "h_g_wo_n">>,
     <<"s_tri">>, <<"s_sq">>, <<"s_ref">>, <<"h__i_", "h_m_e_", "h__i_l">> >>

\* ("기자", "제공", "=연합뉴스")
NewsBadEnd == << <<"h_g_i_", "h_j_a_">>, <<"h_j_e_", "h_g_o_ng">>, <<"=", "h__yeo_n", "h_h_a_p",
                 "h_n_yu_", "h_s_eu_">> >>

\* ("사진", "이미지", "출처", "©")
BlogBadStart == << <<"h_s_a_", "h_j_i_n">>, <<"h__i_", "h_m_i_", "h_j_i_">>, <<"h_ch_u_l",
                   "h_ch_eo_">>, <<"s_copy">> >>

NewsMeaningful(sentence) ==
  /\ Len(sentence) > 20
  /\ Len(sentence) < 200
  /\ ~StartsWithAny(sentence, NewsBadStart)
  /\ ~EndsWithAny(sentence, NewsBadEnd)
  /\ ~OnlyDigitsAndPunct(sentence)
  /\ ~Contains(sentence, <<"h_g_wa_ng", "h_g_o_">>)
  /\ ~Contains(sentence, <<"h_h_o_ng", "h_b_o_">>)
  /\ ~Contains(Lower(sentence), <<"c", "o", "p", "y", "r", "i", "g", "h", "t">>)

BlogMeaningful(sentence) ==
  /\ Len(sentence) > 20
  /\ Len(sentence) < 200
  /\ ~StartsWithAny(sentence, BlogBadStart)
  /\ ~OnlyDigitsAndPunct(sentence)
  /\ ~Contains(sentence, <<"h_g_wa_ng", "h_g_o_">>)
  /\ ~Contains(sentence, <<"h_h_o_ng", "h_b_o_">>)

\* meaningful_sentences: the kept sentences of content, in order, each with
\* its relevance score
MeaningfulSentences(title, content, Meaningful(_)) ==
  LET Scored(kept, title_keywords) ==
        [i \in 1..Len(kept) |->
           <<kept[i], Cardinality(title_keywords \cap HangulWords(kept[i]))>>]
      Kept(stripped) ==
        KeepIdx(stripped, {i \in 1..Len(stripped) : Meaningful(stripped[i])})
      Stripped(sentences) == [i \in 1..Len(sentences) |-> Strip(sentences[i])]
  IN  Scored(Kept(Stripped(SplitOn(content, {".", "!", "?"}))), HangulWords(title))

\* list.sort(key=lambda x: x[1], reverse=True): stable, descending score
SortByScore(ms) ==
  LET Rank(i) == Cardinality({j \in 1..Len(ms) : ms[j][2] > ms[i][2]})
                 + Cardinality({j \in 1..(i - 1) : ms[j][2] = ms[i][2]}) + 1
  IN  [r \in 1..Len(ms) |-> ms[CHOOSE i \in 1..Len(ms) : Rank(i) = r]]

\* ". ".join(sent[0] for sent in ms[a:b]), b - a = 2
JoinTwo(ms, a, b) ==
  LET sel == Slice(ms, a, b)
  IN  IF Len(sel) = 0 THEN <<>>
      ELSE IF Len(sel) = 1 THEN sel[1][1]
      ELSE sel[1][1] \o <<".", " ">> \o sel[2][1]

\* the clipping of a content summary (news_utils.py 733-736, blog 638-641)
ClipSummary(summary) ==
  IF Len(summary) > 150 THEN Slice(summary, 0, 147) \o <<".", ".", ".">>
  ELSE IF ~EndsWith(summary, <<".">>) THEN summary \o <<".">>
  ELSE summary

\* SelectedSentences without the second choice
SelectedSentences_first_only(title, sorted, first) == first

\* the two best sentences, or the second and third when the two best repeat
\* the title and there is a third (news_utils.py 720-731, blog 625-636)
SelectedSentences(title, sorted, first) ==
  IF /\ SimGt(_calculate_similarity(_normalize_title(title),
                                    _normalize_title(first)), 7, 10)
     /\ Len(sorted) > 2
  THEN JoinTwo(sorted, 1, 3)
  ELSE first

\* the summary made of the content's sentences, for a non-empty
\* meaningful_sentences (news_utils.py 714-738, blog_utils.py 619-643)
ContentSummary(title, meaningful_sentences) ==
  LET Summary(sorted) == SelectedSentences(title, sorted, JoinTwo(sorted, 0, 2))
  IN  ClipSummary(Summary(SortByScore(meaningful_sentences)))

\* the content branch is taken and returns
HasContentSummary(content, meaningful_sentences) ==
  /\ content # <<>>
  /\ Len(Strip(content)) > 50
  /\ meaningful_sentences # <<>>

\* the cleaned description is usable as the summary
DescriptionUsable(title, cleaned_desc, placeholders) ==
  /\ cleaned_desc # <<>>
  /\ cleaned_desc \notin placeholders
  /\ SimLt(_calculate_similarity(_normalize_title(title),
                                 _normalize_title(cleaned_desc)), 8, 10)

\* the default summary of news_utils.py 755-770
NewsDefaultSummary(title) ==
  LET Default(title_without_source) ==
        IF \/ Contains(title_without_source, <<"h_g_ae_", "h_ch_oe_">>)
           \/ Contains(title_without_source, <<"h_j_i_n", "h_h_ae_ng">>)
        THEN Strip(title_without_source)
               \o <<"h__e_", " ", "h_d_ae_", "h_h_a_n", " ", "h_s_a_ng", "h_s_e_", " ",
                     "h_n_ae_", "h__yo_ng", "h__eu_l", " ", "h_g_i_", "h_s_a_", "h__e_",
                     "h_s_eo_", " ", "h_h_wa_k", "h__i_n", "h_h_a_l", " ", "h_s_u_", " ",
                     "h__i_ss", "h_s_eu_p", "h_n_i_", "h_d_a_", ".">>
        ELSE IF \/ Contains(title_without_source, <<"h_b_a_l", "h_p_yo_">>)
                \/ Contains(title_without_source, <<"h_g_ye_", "h_h_oe_k">>)
        THEN Strip(title_without_source)
               \o <<"h__e_", " ", "h_g_wa_n", "h_h_a_n", " ", "h_g_u_", "h_ch_e_", "h_j_eo_k",
                     "h__i_n", " ", "h_n_ae_", "h__yo_ng", "h__i_", " ", "h_p_o_", "h_h_a_m",
                     "h_d_oe_", "h__eo_", " ", "h__i_ss", "h_s_eu_p", "h_n_i_", "h_d_a_", ".">>
        ELSE NewsSeeArticle \o <<".">>
  IN  Default(RemoveMatches(title, NameTailAt))

\* _generate_summary from its intermediate values: the content branch,
\* then the description branch, then the default
SummaryFrom(title, content, description, meaningful_sentences, cleaned_desc, placeholders, default) ==
  IF HasContentSummary(content, meaningful_sentences)
  THEN ContentSummary(title, meaningful_sentences)
  ELSE IF description # <<>> /\ DescriptionUsable(title, cleaned_desc, placeholders)
  THEN cleaned_desc
  ELSE default

news_generate_summary(title, content, description) ==
  SummaryFrom(title, content, description,
              MeaningfulSentences(title, content, NewsMeaningful),
              news_clean_description(description),
              {NoSummaryInfo, NewsSeeArticle},
              NewsDefaultSummary(title))

\* the default summary of blog_utils.py 659
BlogDefaultSummary ==
  <<"h_b_eu_l", "h_r_o_", "h_g_eu_", " ", "h_b_o_n", "h_m_u_n", "h__e_", "h_s_eo_", " ",
     "h_s_a_ng", "h_s_e_", " ", "h_n_ae_", "h__yo_ng", "h__eu_l", " ", "h_h_wa_k", "h__i_n",
     "h_h_a_", "h_s_e_", "h__yo_", ".">>

blog_generate_summary(title, content, description) ==
  SummaryFrom(title, content, description,
              MeaningfulSentences(title, content, BlogMeaningful),
              blog_clean_description(description),
              {NoSummaryInfo, BlogSeeArticle},
              BlogDefaultSummary)

\* ------------------------------------------------------------------------
\* Source attribution: news
\* ------------------------------------------------------------------------

\* "if source: return source": the first of the two that is not empty
FirstFound(first, second) == IF first # <<>> THEN first ELSE second

\* "알 수 없는 출처"
UnknownSource == <<"h__a_l", " ", "h_s_u_", " ", "h__eo_ps", "h_n_eu_n", " ", "h_ch_u_l",
                    "h_ch_eo_">>

\* The upstream "source" field of an item: kind is "absent" (no such key),
\* "dict", "str" or "other" (None, a number, a list); a dict has the keys
\* title / name when has_title / has_name, with the values title / name.
\* _extract_source(article.get("source", {}))
_extract_source(source_info) ==
  IF source_info.kind \in {"absent", "dict"}
  THEN IF source_info.has_title THEN source_info.title
       ELSE IF source_info.has_name THEN source_info.name
       ELSE UnknownSource
  ELSE IF source_info.kind = "str" THEN source_info.title
  ELSE UnknownSource

\* (?:저널|뉴스|신문|일보|방송|미디어|타임즈|헤럴드|포스트|투데이|데일리|위클리)
PressSuffixes ==
  << <<"h_j_eo_", "h_n_eo_l">>, <<"h_n_yu_", "h_s_eu_">>, <<"h_s_i_n", "h_m_u_n">>, <<"h__i_l",
     "h_b_o_">>, <<"h_b_a_ng", "h_s_o_ng">>, <<"h_m_i_", "h_d_i_", "h__eo_">>,
     <<"h_t_a_", "h__i_m", "h_j_eu_">>, <<"h_h_e_", "h_r_eo_l", "h_d_eu_">>, <<"h_p_o_",
        "h_s_eu_", "h_t_eu_">>, <<"h_t_u_", "h_d_e_", "h__i_">>, <<"h_d_e_", "h__i_l",
        "h_r_i_">>, <<"h__wi_", "h_k_eu_l", "h_r_i_">> >>

\* (?:저널|뉴스|신문|일보|방송|미디어)
BracketSuffixes ==
  << <<"h_j_eo_", "h_n_eo_l">>, <<"h_n_yu_", "h_s_eu_">>, <<"h_s_i_n", "h_m_u_n">>, <<"h__i_l",
     "h_b_o_">>, <<"h_b_a_ng", "h_s_o_ng">>, <<"h_m_i_", "h_d_i_", "h__eo_">> >>

\* [가-힣A-Za-z0-9]+(?:suffix) matches the whole of name
NameWithSuffix(name, suffixes) ==
  \E k \in 1..Len(suffixes) :
     EndsWith(name, suffixes[k]) /\ Len(name) > Len(suffixes[k])

\* <<first, last>> of the run of [가-힣A-Za-z0-9] that ends at the last
\* character of s that is no white space (last < first when there is none)
TrailingName(s) ==
  LET Range(e) == <<SetMax({0} \cup {j \in 1..e : ~HangulLetterDigit(s[j])}) + 1, e>>
  IN  Range(Len(RStrip(s)))

\* group(1) of re.search(r"\s*-\s*([name]+(?:suffix))\s*$", title), <<>> when
\* there is no match
TitleSourceMatch(title) ==
  LET Group(r, name, before) ==
        IF /\ r[1] <= r[2]
           /\ NameWithSuffix(name, PressSuffixes)
           /\ before # <<>>
           /\ before[Len(before)] = "-"
        THEN name ELSE <<>>
      At(r) == Group(r, SubSeq(title, r[1], r[2]), RStrip(SubSeq(title, 1, r[1] - 1)))
  IN  At(TrailingName(title))

\* group(1) of re.search(r"\s*-?\s*([name]+(?:suffix))\s*$", description)
DescSourceMatch(description) ==
  LET Group(r, name) ==
        IF r[1] <= r[2] /\ NameWithSuffix(name, PressSuffixes) THEN name ELSE <<>>
      At(r) == Group(r, SubSeq(description, r[1], r[2]))
  IN  At(TrailingName(description))

\* group(1) of re.search(open [name]+(?:suffix) close, text): the leftmost
BracketSourceMatch(text, open, close, suffixes) ==
  LET Name(i) == SubSeq(text, i + 1, RunEnd(text, i + 1, HangulLetterDigit))
      at == {i \in 1..Len(text) :
               /\ text[i] = open
               /\ i + Len(Name(i)) + 1 <= Len(text)
               /\ text[i + Len(Name(i)) + 1] = close
               /\ NameWithSuffix(Name(i), suffixes)}
  IN  IF at = {} THEN <<>> ELSE Name(SetMin(at))

\* urlsplit: the url without leading white space and without tab / newline
UrlClean(url) == SelectSeq(LStrip(url), LAMBDA c : c \notin {"\t", "\n"})

SchemeChar(c) == IsAsciiLetter(c) \/ IsDigit(c) \/ c \in {"+", "-", "."}

\* urlsplit: the url after its scheme
UrlAfterScheme(url) ==
  LET After(u, i) ==
        IF i > 1 /\ IsAsciiLetter(u[1]) /\ \A k \in 1..(i - 1) : SchemeChar(u[k])
        THEN SubSeq(u, i + 1, Len(u))
        ELSE u
      AfterColon(u) == After(u, Find(u, <<":">>))
  IN  AfterColon(UrlClean(url))

\* the first position >= from of a character of D in u, Len(u) + 1 when none
FirstOf(u, from, D) ==
  LET at == {j \in from..Len(u) : u[j] \in D}
  IN  IF at = {} THEN Len(u) + 1 ELSE SetMin(at)

\* urlparse(url).netloc: empty unless "//" follows the scheme
NetLoc(url) ==
  LET Loc(u) ==
        IF StartsWith(u, <<"/", "/">>)
        THEN SubSeq(u, 3, FirstOf(u, 3, {"/", "?", "#"}) - 1)
        ELSE <<>>
  IN  Loc(UrlAfterScheme(url))

\* urlparse raises ValueError("Invalid IPv6 URL")
UrlParseRaises(url) ==
  LET Unbalanced(netloc) == Contains(netloc, <<"[">>) # Contains(netloc, <<"]">>)
  IN  Unbalanced(NetLoc(url))

\* domain_mapping, in the order of the dict
domain_mapping ==
  << << <<"n", "e", "w", "s", ".", "n", "a", "v", "e", "r", ".", "c", "o", "m">>, <<"h_n_e_",
     "h__i_", "h_b_eo_", "h_n_yu_", "h_s_eu_">> >>,
     << <<"n", "e", "w", "s", ".", "d", "a", "u", "m", ".", "n", "e", "t">>, <<"h_d_a_",
        "h__eu_m", "h_n_yu_", "h_s_eu_">> >>,
     << <<"v", ".", "d", "a", "u", "m", ".", "n", "e", "t">>, <<"h_d_a_", "h__eu_m", "h_n_yu_",
        "h_s_eu_">> >>,
     << <<"n", "e", "w", "s", ".", "g", "o", "o", "g", "l", "e", ".", "c", "o", "m">>,
        <<"h_g_u_", "h_g_eu_l", "h_n_yu_", "h_s_eu_">> >>,
     << <<"y", "n", "a", ".", "c", "o", ".", "k", "r">>, <<"h__yeo_n", "h_h_a_p", "h_n_yu_",
        "h_s_eu_">> >>,
     << <<"y", "o", "n", "h", "a", "p", "n", "e", "w", "s", ".", "c", "o", ".", "k", "r">>,
        <<"h__yeo_n", "h_h_a_p", "h_n_yu_", "h_s_eu_">> >>,
     << <<"c", "h", "o", "s", "u", "n", ".", "c", "o", "m">>, <<"h_j_o_", "h_s_eo_n", "h__i_l",
        "h_b_o_">> >>,
     << <<"d", "o", "n", "g", "a", ".", "c", "o", "m">>, <<"h_d_o_ng", "h__a_", "h__i_l",
        "h_b_o_">> >>,
     << <<"j", "o", "o", "n", "g", "a", "n", "g", ".", "c", "o", ".", "k", "r">>, <<"h_j_u_ng",
        "h__a_ng", "h__i_l", "h_b_o_">> >>,
     << <<"h", "a", "n", "i", ".", "c", "o", ".", "k", "r">>, <<"h_h_a_n", "h_g_yeo_",
        "h_r_e_">> >>,
     << <<"k", "h", "a", "n", ".", "c", "o", ".", "k", "r">>, <<"h_g_yeo_ng", "h_h_ya_ng",
        "h_s_i_n", "h_m_u_n">> >>,
     << <<"m", "t", ".", "c", "o", ".", "k", "r">>, <<"h_m_eo_", "h_n_i_", "h_t_u_", "h_d_e_",
        "h__i_">> >>,
     << <<"m", "k", ".", "c", "o", ".", "k", "r">>, <<"h_m_ae_", "h__i_l", "h_g_yeo_ng",
        "h_j_e_">> >>,
     << <<"h", "a", "n", "k", "y", "u", "n", "g", ".", "c", "o", "m">>, <<"h_h_a_n", "h_g_u_k",
        "h_g_yeo_ng", "h_j_e_">> >>,
     << <<"s", "b", "s", ".", "c", "o", ".", "k", "r">>, <<"S", "B", "S">> >>,
     << <<"k", "b", "s", ".", "c", "o", ".", "k", "r">>, <<"K", "B", "S">> >>,
     << <<"m", "b", "c", ".", "c", "o", ".", "k", "r">>, <<"M", "B", "C">> >>,
     << <<"n", "e", "w", "s", "p", "i", "m", ".", "c", "o", "m">>, <<"h_n_yu_", "h_s_eu_",
        "h_p_i_m">> >>,
     << <<"n", "e", "w", "s", "1", ".", "k", "r">>, <<"h_n_yu_", "h_s_eu_", "1">> >>,
     << <<"p", "r", "e", "s", "s", "i", "a", "n", ".", "c", "o", "m">>, <<"h_p_eu_", "h_r_e_",
        "h_s_i_", "h__a_n">> >>,
     << <<"o", "h", "m", "y", "n", "e", "w", "s", ".", "c", "o", "m">>, <<"h__o_", "h_m_a_",
        "h__i_", "h_n_yu_", "h_s_eu_">> >>,
     << <<"s", "i", "s", "a", "i", "n", ".", "c", "o", ".", "k", "r">>, <<"h_s_i_", "h_s_a_",
        "I", "N">> >>,
     << <<"h", "a", "n", "k", "o", "o", "k", "i", "l", "b", "o", ".", "c", "o", "m">>,
        <<"h_h_a_n", "h_g_u_k", "h__i_l", "h_b_o_">> >>,
     << <<"s", "e", "o", "u", "l", ".", "c", "o", ".", "k", "r">>, <<"h_s_eo_", "h__u_l",
        "h_s_i_n", "h_m_u_n">> >>,
     << <<"m", "u", "n", "h", "w", "a", ".", "c", "o", "m">>, <<"h_m_u_n", "h_h_wa_", "h__i_l",
        "h_b_o_">> >>,
     << <<"d", "t", ".", "c", "o", ".", "k", "r">>, <<"h_d_i_", "h_j_i_", "h_t_eo_l", "h_t_a_",
        "h__i_m", "h_s_eu_">> >>,
     << <<"e", "t", "n", "e", "w", "s", ".", "c", "o", "m">>, <<"h_j_eo_n", "h_j_a_", "h_s_i_n",
        "h_m_u_n">> >>,
     << <<"z", "d", "n", "e", "t", ".", "c", "o", ".", "k", "r">>, <<"Z", "D", "N", "e", "t",
        " ", "K", "o", "r", "e", "a">> >> >>

UpperChar(c) ==
  IF \E i \in 1..26 : LowerLetters[i] = c
  THEN UpperLetters[CHOOSE i \in 1..26 : LowerLetters[i] = c]
  ELSE c

\* str.title()
TitleCase(s) ==
  [i \in 1..Len(s) |->
     IF i > 1 /\ IsAsciiLetter(s[i - 1]) THEN LowerChar(s[i]) ELSE UpperChar(s[i])]

\* ["news", "journal", "daily", "times", "post", "herald"]
PressDomainWords ==
  << <<"n", "e", "w", "s">>, <<"j", "o", "u", "r", "n", "a", "l">>, <<"d", "a", "i", "l", "y">>,
     <<"t", "i", "m", "e", "s">>, <<"p", "o", "s", "t">>, <<"h", "e", "r", "a", "l", "d">> >>

\* step 3 of _extract_source_from_title_and_description, for a non-empty link
\* that urlparse accepts: the source the domain gives, <<>> when it gives none
DomainSource(link) ==
  LET Guess(main_domain) ==
        IF \E k \in 1..Len(PressDomainWords) : Contains(main_domain, PressDomainWords[k])
        THEN TitleCase(main_domain)
        ELSE IF \/ EndsWith(main_domain, <<"n", "e", "w", "s">>)
                \/ EndsWith(main_domain, <<"j", "o", "u", "r", "n", "a", "l">>)
        THEN TitleCase(Replace(Replace(main_domain, <<"n", "e", "w", "s">>,
                                       <<"h_n_yu_", "h_s_eu_">>),
                               <<"j", "o", "u", "r", "n", "a", "l">>,
                               <<"h_j_eo_", "h_n_eo_l">>))
        ELSE <<>>
      FromParts(domain_parts) ==
        IF Len(domain_parts) >= 2 THEN Guess(domain_parts[1]) ELSE <<>>
      Mapped(domain, exact, partial) ==
        IF exact # {} THEN domain_mapping[SetMin(exact)][2]
        ELSE IF partial # {} THEN domain_mapping[SetMin(partial)][2]
        ELSE FromParts(SplitOn(Replace(domain, <<"w", "w", "w", ".">>, <<>>), {"."}))
      FromDomain(domain) ==
        Mapped(domain,
               {k \in 1..Len(domain_mapping) : domain_mapping[k][1] = domain},
               {k \in 1..Len(domain_mapping) :
                  \/ Contains(domain, domain_mapping[k][1])
                  \/ Contains(domain_mapping[k][1], domain)})
  IN  FromDomain(Lower(NetLoc(link)))

_extract_source_from_title_and_description(title, description, link) ==
  LET FromBrackets(combined_text) ==
        FirstFound(BracketSourceMatch(combined_text, "(", ")", BracketSuffixes),
        FirstFound(BracketSourceMatch(combined_text, "[", "]", BracketSuffixes),
                   UnknownSource))
  IN  FirstFound(TitleSourceMatch(title),
      FirstFound(DescSourceMatch(description),
      FirstFound(IF link # <<>> /\ ~UrlParseRaises(link) THEN DomainSource(link) ELSE <<>>,
                 FromBrackets(title \o <<" ">> \o description))))

\* ------------------------------------------------------------------------
\* Source attribution: blogs
\* ------------------------------------------------------------------------

\* urlsplit: the scheme of the url, lowered, <<>> when it has none
UrlScheme(url) ==
  LET Scheme(u, rest) == Lower(SubSeq(u, 1, Len(u) - Len(rest) - 1))
  IN  Scheme(UrlClean(url), UrlAfterScheme(url))

\* urllib.parse.uses_params
uses_params ==
  { <<>>, <<"f", "t", "p">>, <<"h", "d", "l">>, <<"p", "r", "o", "s", "p", "e", "r", "o">>,
       <<"h", "t", "t", "p">>, <<"i", "m", "a", "p">>, <<"h", "t", "t", "p", "s">>,
    <<"s", "h", "t", "t", "p">>, <<"r", "t", "s", "p">>, <<"r", "t", "s", "p", "s">>, <<"r",
       "t", "s", "p", "u">>, <<"s", "i", "p">>, <<"s", "i", "p", "s">>, <<"m", "m", "s">>,
    <<"s", "f", "t", "p">>, <<"t", "e", "l">> }

\* urllib.parse._splitparams(url)[0]
SplitParams(path) ==
  LET slashes == {j \in 1..Len(path) : path[j] = "/"}
  IN  SubSeq(path, 1,
             FirstOf(path, IF slashes = {} THEN 1 ELSE SetMax(slashes), {";"}) - 1)

\* urlparse(url).path
UrlPath(url) ==
  LET Params(path) == IF UrlScheme(url) \in uses_params THEN SplitParams(path) ELSE path
      Path(rest) == Params(SubSeq(rest, 1, FirstOf(rest, 1, {"?", "#"}) - 1))
      Rest(u) == Path(IF StartsWith(u, <<"/", "/">>)
                      THEN SubSeq(u, FirstOf(u, 3, {"/", "?", "#"}), Len(u))
                      ELSE u)
  IN  Rest(UrlAfterScheme(url))

\* re.split(r"\s*[sep]\s*word1\s*word2", title)[0] (word2 may be empty): the
\* title before the leftmost match, the whole title when nothing matches
BeforePlatform(title, seps, word1, word2) ==
  LET After(c) == RunEnd(title, c + 1, IsSpace) + 1
      Valid(c) == /\ title[c] \in seps
                  /\ MatchAt(title, After(c), word1)
                  /\ MatchAt(title,
                             RunEnd(title, After(c) + Len(word1), IsSpace) + 1,
                             word2)
      at == {c \in 1..Len(title) : Valid(c)}
  IN  IF at = {} THEN title
      ELSE SubSeq(title, 1, Len(RStrip(SubSeq(title, 1, SetMin(at) - 1))))

\* PlatformFromTitle with the whole title part
PlatformFromTitle_uncapped(title_part, platform) ==
  IF Len(title_part) > 0
  THEN Strip(title_part) \o <<".", ".", ".", " ", "(">> \o platform \o <<")">>
  ELSE platform

\* f"{clean_title[:30]}... (platform)" or the bare platform
PlatformFromTitle(title_part, platform) ==
  IF Len(title_part) > 0
  THEN Slice(Strip(title_part), 0, 30) \o <<".", ".", ".", " ", "(">> \o platform \o <<")">>
  ELSE platform

AtSign == <<"@">>

NaverBlog == <<"h_n_e_", "h__i_", "h_b_eo_", " ", "h_b_eu_l", "h_r_o_", "h_g_eu_">>

Tistory == <<"h_t_i_", "h_s_eu_", "h_t_o_", "h_r_i_">>

Brunch == <<"h_b_eu_", "h_r_eo_n", "h_ch_i_">>

Medium == <<"h_m_i_", "h_d_i_", "h__eo_m">>

\* "블로그"
DefaultBlogSource == <<"h_b_eu_l", "h_r_o_", "h_g_eu_">>

\* ["blog", "diary", "note", "post", "story"]
BlogDomainWords == << <<"b", "l", "o", "g">>, <<"d", "i", "a", "r", "y">>, <<"n", "o", "t",
                      "e">>, <<"p", "o", "s", "t">>, <<"s", "t", "o", "r", "y">> >>

\* step 1 of _extract_blog_source: the source a non-empty title gives, <<>>
\* when it gives none
BlogTitleSource(title) ==
  IF Contains(title, NaverBlog)
  THEN PlatformFromTitle(BeforePlatform(title, {":", "s_fcolon"}, <<"h_n_e_", "h__i_",
       "h_b_eo_">>, DefaultBlogSource),
                         NaverBlog)
  ELSE IF Contains(title, Tistory)
  THEN PlatformFromTitle(BeforePlatform(title, {"-"}, Tistory, <<>>), Tistory)
  ELSE IF Contains(title, Brunch) \/ Contains(Lower(title), <<"b", "r", "u", "n", "c",
       "h">>) THEN Brunch
  ELSE IF Contains(Lower(title), <<"n", "a", "v", "e", "r">>) THEN NaverBlog
  ELSE <<>>

\* step 2 of _extract_blog_source, for a non-empty link that urlparse accepts
BlogLinkSource(link) ==
  LET Platform(domain, path_parts) ==
        IF Contains(domain, <<"t", "i", "s", "t", "o", "r", "y", ".", "c", "o", "m">>)
        THEN Replace(Replace(domain,
                             <<".", "t", "i", "s", "t", "o", "r", "y", ".", "c", "o", "m">>,
                             <<>>),
                     <<"w", "w", "w", ".">>, <<>>)
               \o <<" ", "(">> \o Tistory \o <<")">>
        ELSE IF Contains(domain, <<"b", "l", "o", "g", ".", "n", "a", "v", "e", "r", ".", "c",
             "o", "m">>)
        THEN IF Len(path_parts) > 1
             THEN path_parts[2] \o <<" ", "(">> \o NaverBlog \o <<")">>
             ELSE NaverBlog
        ELSE IF Contains(domain, <<"b", "r", "u", "n", "c", "h", ".", "c", "o", ".", "k", "r">>)
        THEN IF Len(path_parts) > 1 /\ path_parts[1] = <<>>
             THEN AtSign \o Replace(path_parts[2], AtSign, <<>>)
                    \o <<" ", "(">> \o Brunch \o <<")">>
             ELSE Brunch
        ELSE IF Contains(domain, <<"m", "e", "d", "i", "u", "m", ".", "c", "o", "m">>)
        THEN IF Len(path_parts) > 1 /\ StartsWith(path_parts[2], AtSign)
             THEN path_parts[2] \o <<" ", "(">> \o Medium \o <<")">>
             ELSE Medium
        ELSE IF \E k \in 1..Len(BlogDomainWords) : Contains(domain, BlogDomainWords[k])
        THEN Replace(domain, <<"w", "w", "w", ".">>, <<>>)
               \o <<" ", "(">> \o DefaultBlogSource \o <<")">>
        ELSE <<>>
  IN  Platform(Lower(NetLoc(link)), SplitOn(UrlPath(link), {"/"}))

\* group(1) of re.search(r"\(([가-힣A-Za-z0-9]+\s*블로그)\)", text): the
\* leftmost, <<>> when there is none
BlogBracketMatch(text) ==
  LET NameEnd(i) == RunEnd(text, i + 1, HangulLetterDigit)
      \* the name run may give back its last characters to "블로그"
      Ends(i) == {e \in (i + 1)..Len(text) :
                    /\ text[e] = ")"
                    /\ e - 1 - Len(DefaultBlogSource) >= i + 1
                    /\ MatchAt(text, e - Len(DefaultBlogSource), DefaultBlogSource)
                    /\ \E k \in (i + 1)..NameEnd(i) :
                          /\ k < e - Len(DefaultBlogSource)
                          /\ \A j \in (k + 1)..(e - Len(DefaultBlogSource) - 1) :
                                IsSpace(text[j])}
      at == {i \in 1..Len(text) : text[i] = "(" /\ Ends(i) # {}}
  IN  IF at = {} THEN <<>>
      ELSE SubSeq(text, SetMin(at) + 1, SetMin(Ends(SetMin(at))) - 1)

_extract_blog_source(link, title, description) ==
  FirstFound(IF title # <<>> THEN BlogTitleSource(title) ELSE <<>>,
  FirstFound(IF link # <<>> /\ ~UrlParseRaises(link) THEN BlogLinkSource(link) ELSE <<>>,
  FirstFound(BlogBracketMatch(title \o <<" ">> \o description),
             DefaultBlogSource)))

\* ------------------------------------------------------------------------
\* Publish dates
\* ------------------------------------------------------------------------

\* A pubDate value of the feed is [fmt, t, off]: the shape of the value, the
\* local time it names (hours) and its UTC offset (hours).  The shapes:
\*   "empty"          "" / None / key absent
\*   "rss_tzname"     "Mon, 14 Oct 2024 10:00:00 GMT"
\*   "rfc2822_offset" "Mon, 14 Oct 2024 10:00:00 +0900"
\*   "iso_offset"     "2024-10-14T10:00:00+09:00"
\*   "ymd_hms"        "2024-10-14 10:00:00"
\*   "ymd"            "2024-10-14"
\*   "korean"         "2024년 10월 14일"
\*   "korean_invalid" "2024년 13월 45일": the pattern with a month or a day
\*                    out of range
\*   "iso_naive"      "2024-10-14T10:00:00"
\*   "compact"        "20241014"
\*   "garbage"        any other text
\*   "number"         a value that is no string (1728900000)
DateShapes ==
  {"empty", "rss_tzname", "rfc2822_offset", "iso_offset", "ymd_hms", "ymd",
   "korean", "korean_invalid", "iso_naive", "compact", "garbage", "number"}

\* formats, in the order they are tried
formats == <<"rss_tzname", "rfc2822_offset", "iso_offset", "ymd_hms", "ymd">>

\* datetime.strptime(date_str.strip(), fmt): %z gives an aware datetime, a
\* format without a time of day gives midnight
strptime(date_str, fmt) ==
  IF fmt \in {"rfc2822_offset", "iso_offset"}
  THEN [kind |-> "aware", t |-> date_str.t, off |-> date_str.off]
  ELSE IF fmt = "ymd"
  THEN [kind |-> "naive", t |-> date_str.t - (date_str.t % 24), off |-> 0]
  ELSE [kind |-> "naive", t |-> date_str.t, off |-> 0]

\* None
NoDate == [kind |-> "none", t |-> 0, off |-> 0]

\* an exception leaves _parse_pub_date
DateRaise == [kind |-> "raise", t |-> 0, off |-> 0]

\* _parse_pub_date without the try around the Korean pattern
_parse_pub_date_unguarded(date_str) ==
  LET matching == {k \in 1..Len(formats) : formats[k] = date_str.fmt}
  IN  IF date_str.fmt = "empty" THEN NoDate
      ELSE IF date_str.fmt = "number" THEN DateRaise
      ELSE IF matching # {} THEN strptime(date_str, formats[SetMin(matching)])
      ELSE IF date_str.fmt = "korean"
      THEN [kind |-> "naive", t |-> date_str.t - (date_str.t % 24), off |-> 0]
      ELSE IF date_str.fmt = "korean_invalid" THEN DateRaise
      ELSE NoDate

\* The parsed date is [kind, t, off] with kind "none" (None), "naive" or
\* "aware"; kind "raise" stands for the AttributeError of a value without
\* strip().  The ValueError of datetime(year, month, day) for a month or a
\* day out of range is caught at line 203 (blog 179).
_parse_pub_date(date_str) ==
  LET matching == {k \in 1..Len(formats) : formats[k] = date_str.fmt}
  IN  IF date_str.fmt = "empty" THEN NoDate
      ELSE IF date_str.fmt = "number" THEN DateRaise
      ELSE IF matching # {} THEN strptime(date_str, formats[SetMin(matching)])
      ELSE IF date_str.fmt = "korean"
      THEN [kind |-> "naive", t |-> date_str.t - (date_str.t % 24), off |-> 0]
      ELSE NoDate

\* pub_date < cutoff_time raises TypeError for an aware pub_date: cutoff_time
\* is naive
CompareRaises(pub_date) == pub_date.kind = "aware"

\* TooOld with a cutoff one hour too early
TooOld_late(pub_date, cutoff_time) ==
  pub_date.kind = "naive" /\ pub_date.t < cutoff_time - 1

\* pub_date and pub_date < cutoff_time
TooOld(pub_date, cutoff_time) ==
  pub_date.kind = "naive" /\ pub_date.t < cutoff_time

DigitChars == <<"0", "1", "2", "3", "4", "5", "6", "7", "8", "9">>

\* str(n), n >= 0
RECURSIVE NatText(_)
NatText(n) ==
  IF n < 10 THEN <<DigitChars[n + 1]>>
  ELSE NatText(n \div 10) \o <<DigitChars[(n % 10) + 1]>>

\* strftime("%Y-%m-%d %H:%M"): the day as its number, then the hour
strftime(t) ==
  NatText(t \div 24) \o <<" ">> \o
  (IF t % 24 < 10 THEN <<"0">> ELSE <<>>) \o NatText(t % 24) \o <<":", "0", "0">>

\* "시간 정보 없음"
NoTimeInfo == <<"h_s_i_", "h_g_a_n", " ", "h_j_eo_ng", "h_b_o_", " ", "h__eo_ps", "h__eu_m">>

\* datetime.min, as an hour
DatetimeMin == -1

\* x.get("pub_date_raw") or datetime.min
SortKey(x) == IF x.pub_date_raw.kind = "none" THEN DatetimeMin ELSE x.pub_date_raw.t

\* SortNewestFirst without the sort
SortNewestFirst_unsorted(articles) == articles

\* list.sort(key=SortKey, reverse=True): stable, equal keys keep their order
SortNewestFirst(articles) ==
  LET Rank(i) == Cardinality({j \in 1..Len(articles) :
                                SortKey(articles[j]) > SortKey(articles[i])})
                 + Cardinality({j \in 1..(i - 1) :
                                  SortKey(articles[j]) = SortKey(articles[i])}) + 1
  IN  [r \in 1..Len(articles) |->
         articles[CHOOSE i \in 1..Len(articles) : Rank(i) = r]]

\* the sort compares an aware key with a naive one
SortRaises(articles) ==
  \E i, j \in 1..Len(articles) :
     articles[i].pub_date_raw.kind = "aware" /\ articles[j].pub_date_raw.kind # "aware"

\* PopRaw without the pop
PopRaw_keep(article) == article

\* article.pop("pub_date_raw", None)
PopRaw(article) ==
  [title |-> article.title, summary |-> article.summary,
   source |-> article.source, link |-> article.link,
   pub_date |-> article.pub_date]

\* ------------------------------------------------------------------------
\* Fallback records
\* ------------------------------------------------------------------------

\* _fallback_news_search with a title that does not name the keyword
_fallback_news_search_anonymous(keyword, max_results, second_status, now) ==
  << [title |-> <<"h_n_yu_", "h_s_eu_", " ", "h_g_eo_m", "h_s_ae_k", " ", "h_s_i_l", "h_p_ae_">>,
      summary |-> <<"h_n_e_", "h_t_eu_", "h__wo_", "h_k_eu_", " ", "h_m_u_n", "h_j_e_",
                     "h_n_a_", " ", "A", "P", "I", " ", "h_s_eo_", "h_b_i_", "h_s_eu_", " ",
                     "h_j_a_ng", "h__ae_", "h_r_o_", " ", "h_n_yu_", "h_s_eu_", "h_r_eu_l", " ",
                     "h_g_a_", "h_j_yeo_", "h__o_l", " ", "h_s_u_", " ", "h__eo_ps", "h_s_eu_p",
                     "h_n_i_", "h_d_a_", ".">>,
      source |-> <<"h_s_i_", "h_s_eu_", "h_t_e_m", " ", "h__o_", "h_r_yu_">>,
      link |-> <<>>,
      pub_date |-> strftime(now)] >>

\* second_status is the outcome of the request to rss.donga.com: "ok" (200),
\* "http_error" or "exception"
_fallback_news_search(keyword, max_results, second_status, now) ==
  IF second_status = "ok"
  THEN << [title |-> keyword \o <<" ", "h_g_wa_n", "h_r_yeo_n", " ", "h_n_yu_", "h_s_eu_", " ",
          "h_g_eo_m", "h_s_ae_k", " ", "h_g_yeo_l", "h_g_wa_", "h_r_eu_l", " ", "h_g_a_",
          "h_j_yeo_", "h__o_l", " ", "h_s_u_", " ", "h__eo_ps", "h_s_eu_p", "h_n_i_",
          "h_d_a_">>,
           summary |-> <<"h_n_yu_", "h_s_eu_", " ", "A", "P", "I", " ", "h_s_eo_", "h_b_i_",
                          "h_s_eu_", "h__e_", " ", "h__i_l", "h_s_i_", "h_j_eo_k", "h__i_n",
                          " ", "h_m_u_n", "h_j_e_", "h_g_a_", " ", "h_b_a_l", "h_s_ae_ng",
                          "h_h_ae_ss", "h_s_eu_p", "h_n_i_", "h_d_a_", ".">>,
           source |-> <<"h_s_i_", "h_s_eu_", "h_t_e_m", " ", "h__a_l", "h_r_i_m">>,
           link |-> <<>>,
           pub_date |-> strftime(now)] >>
  ELSE << [title |-> keyword \o <<" ", "h_n_yu_", "h_s_eu_", " ", "h_g_eo_m", "h_s_ae_k", " ",
          "h_s_i_l", "h_p_ae_">>,
           summary |-> <<"h_n_e_", "h_t_eu_", "h__wo_", "h_k_eu_", " ", "h_m_u_n", "h_j_e_",
                          "h_n_a_", " ", "A", "P", "I", " ", "h_s_eo_", "h_b_i_", "h_s_eu_",
                          " ", "h_j_a_ng", "h__ae_", "h_r_o_", " ", "h_n_yu_", "h_s_eu_",
                          "h_r_eu_l", " ", "h_g_a_", "h_j_yeo_", "h__o_l", " ", "h_s_u_", " ",
                          "h__eo_ps", "h_s_eu_p", "h_n_i_", "h_d_a_", ".">>,
           source |-> <<"h_s_i_", "h_s_eu_", "h_t_e_m", " ", "h__o_", "h_r_yu_">>,
           link |-> <<>>,
           pub_date |-> strftime(now)] >>

_fallback_blog_search(keyword, max_results, now) ==
  << [title |-> keyword \o <<" ", "h_b_eu_l", "h_r_o_", "h_g_eu_", " ", "h_g_eo_m", "h_s_ae_k",
     " ", "h_s_i_l", "h_p_ae_">>,
      summary |-> <<"h_n_e_", "h_t_eu_", "h__wo_", "h_k_eu_", " ", "h_m_u_n", "h_j_e_",
                     "h_n_a_", " ", "A", "P", "I", " ", "h_s_eo_", "h_b_i_", "h_s_eu_", " ",
                     "h_j_a_ng", "h__ae_", "h_r_o_", " ", "h_b_eu_l", "h_r_o_", "h_g_eu_", " ",
                     "h_g_eu_l", "h__eu_l", " ", "h_g_a_", "h_j_yeo_", "h__o_l", " ", "h_s_u_",
                     " ", "h__eo_ps", "h_s_eu_p", "h_n_i_", "h_d_a_", ".">>,
      source |-> <<"h_s_i_", "h_s_eu_", "h_t_e_m", " ", "h__o_", "h_r_yu_">>,
      link |-> <<>>,
      pub_date |-> strftime(now)] >>

\* ------------------------------------------------------------------------
\* The pipelines: search_news_by_keyword, search_blogs_by_keyword
\* ------------------------------------------------------------------------

\* the longest feed that is explored
MaxItems == 3

\* max_results ranges over 0..MaxResults
MaxResults == 3

\* datetime.now(), in hours
NowHour == 100

\* hours_back: the default and a longer window
HoursBackValues == {24, 48}

Keywords == { <<"A", "I">>, <<"h_n_a_l", "h_ss_i_">> }

\* article.get("source", {}) of an item without the key
NoSourceInfo ==
  [kind |-> "absent", has_title |-> FALSE, title |-> <<>>,
   has_name |-> FALSE, name |-> <<>>]

Item(title, description, fmt, t, link, page) ==
  [title |-> title,
   description |-> [none |-> FALSE, v |-> description],
   pubDate |-> [fmt |-> fmt, t |-> t, off |-> 9],
   link |-> link,
   source |-> NoSourceInfo,
   page |-> [raises |-> FALSE, text |-> page]]

\* the text of a page with one long sentence
LongPage ==
  <<"t", "h", "e", " ", "c", "i", "t", "y", " ", "c", "o", "u", "n", "c", "i", "l", " ", "a",
     "p", "p", "r", "o", "v", "e", "d", " ", "t", "h", "e", " ", "n", "e", "w", " ", "t", "r",
     "a", "n", "s", "p", "o", "r", "t", " ", "b", "u", "d", "g", "e", "t", " ", "a", "f", "t",
     "e", "r", " ", "a", " ", "l", "o", "n", "g", " ", "d", "e", "b", "a", "t", "e", " ", "a",
     "n", "d", " ", "t", "h", "e", " ", "m", "a", "y", "o", "r", " ", "s", "a", "i", "d", " ",
     "t", "h", "a", "t", " ", "w", "o", "r", "k", " ", "o", "n", " ", "t", "h", "e", " ", "t",
     "w", "o", " ", "b", "r", "i", "d", "g", "e", "s", " ", "w", "o", "u", "l", "d", " ", "b",
     "e", "g", "i", "n", " ", "e", "a", "r", "l", "y", " ", "i", "n", " ", "t", "h", "e", " ",
     "s", "p", "r", "i", "n", "g">>

\* the text of a page with two sentences
ShortPage ==
  <<"t", "h", "e", " ", "c", "o", "u", "n", "c", "i", "l", " ", "a", "p", "p", "r", "o", "v",
     "e", "d", " ", "t", "h", "e", " ", "n", "e", "w", " ", "b", "u", "d", "g", "e", "t", " ",
     "f", "o", "r", " ", "n", "e", "x", "t", " ", "y", "e", "a", "r", ".", " ", "i", "t", " ",
     "t", "a", "k", "e", "s", " ", "e", "f", "f", "e", "c", "t", " ", "s", "o", "o", "n">>

\* The items a feed is made of.  description.none is a null description;
\* page is what _fetch_article_content / _fetch_blog_content does for the
\* link of the item: the text it returns ("" after a failed request), or
\* raises for a call that raises.
ItemPool ==
  << Item(<<"a", " ", "b">>, <<>>, "ymd", NowHour - 1, <<"h", "t", "t", "p", "s", ":", "/", "/",
     "w", "w", "w", ".", "c", "h", "o", "s", "u", "n", ".", "c", "o", "m", "/", "1">>, <<>>),
     [Item(<<"a", " ", "b", " ", "c">>, <<"<", "b", ">", "p", "l", "a", "i", "n", " ", "w", "o",
              "r", "d", "s", "<", "/", "b", ">", " ", "o", "f", " ", "t", "h", "e", " ", "d",
              "e", "s", "c", "r", "i", "p", "t", "i", "o", "n", " ", "t", "e", "x", "t">>,
           "empty", 0, <<>>, <<>>)
        EXCEPT !.source = [kind |-> "dict", has_title |-> TRUE,
                           title |-> <<"h__yeo_n", "h_h_a_p", "h_n_yu_", "h_s_eu_">>,
                           has_name |-> FALSE, name |-> <<>>]],
     Item(<<"a">>, <<"s", "h", "o", "r", "t", " ", "t", "e", "x", "t">>, "rss_tzname", NowHour - 24,
          <<"h", "t", "t", "p", "s", ":", "/", "/", "b", "l", "o", "g", ".", "n", "a", "v", "e",
             "r", ".", "c", "o", "m", "/", "u", "s", "e", "r", "1", "/", "3">>, ShortPage),
     [Item(<<"d">>, <<"<", "b", "r", ">">>, "korean", NowHour - 2,
           <<"h", "t", "t", "p", "s", ":", "/", "/", "x", ".", "t", "i", "s", "t", "o", "r",
              "y", ".", "c", "o", "m", "/", "4">>, <<>>)
        EXCEPT !.page = [raises |-> TRUE, text |-> <<>>]],
     Item(<<"e", " ", "f">>, <<>>, "ymd_hms", NowHour - 25, <<"h", "t", "t", "p", "s", ":", "/",
             "/", "e", "x", "a", "m", "p", "l", "e", ".", "c", "o", "m", "/", "5">>,
          LongPage),
     Item(<<"k", " ", "[", "P", "R", "]">>, <<>>, "ymd_hms", NowHour - 1, <<>>, <<>>),
     Item(<<"g">>, <<>>, "iso_offset", NowHour - 1, <<>>, <<>>),
     [Item(<<"h">>, <<>>, "ymd_hms", NowHour - 1, <<>>, <<>>)
        EXCEPT !.description = [none |-> TRUE, v |-> <<>>]],
     Item(<<>>, <<>>, "ymd_hms", NowHour - 1, <<>>, <<>>),
     Item(<<"!", "!">>, <<>>, "iso_naive", NowHour - 30, <<>>, <<>>),
     Item(<<"<", "b", ">", "m", "<", "/", "b", ">", " ", "&", "a", "m", "p", ";", " ", "n">>,
          <<>>, "ymd_hms", NowHour - 3, <<>>, <<>>),
     Item(<<"<", "i", ">", " ", "<", "/", "i", ">">>, <<>>, "ymd_hms", NowHour - 4, <<>>, <<>>),
     Item(<<"e", " ", "f", " ", "g">>, <<>>, "ymd_hms", NowHour - 1, <<>>, <<>>),
     Item(<<"n">>, <<"(", "P", "r", ")", " ", "h_h_a_l", "h__i_n">>, "ymd_hms", NowHour - 1, <<>>, <<>>) >>

\* _generate_summary(title, content, description) of the two modules
_generate_summary(module, title, content, description) ==
  IF module = "news"
  THEN news_generate_summary(title, content, description)
  ELSE blog_generate_summary(title, content, description)

\* _clean_description without its guards and placeholders
_clean_description_bare(module, description) ==
  Strip(RemoveMatches(description, TagAt))

\* _clean_description(description) of the two modules
_clean_description(module, description) ==
  IF module = "news"
  THEN news_clean_description(description)
  ELSE blog_clean_description(description)

\* lines 83-87 (blog 80-84): the summary of an item
\*   try: content = _fetch(link) if link else ""; summary = _generate_summary
\*   except Exception: summary = _clean_description(description)
ItemSummary(module, article) ==
  IF article.link # <<>> /\ article.page.raises
  THEN _clean_description(module, article.description.v)
  ELSE _generate_summary(module, article.title,
                         IF article.link # <<>> THEN article.page.text ELSE <<>>,
                         article.description.v)

\* lines 76-80 (blog 77): the source of an item
ItemSource(module, article) ==
  IF module = "news"
  THEN IF _extract_source(article.source) = UnknownSource
       THEN _extract_source_from_title_and_description(
              article.title, article.description.v, article.link)
       ELSE _extract_source(article.source)
  ELSE _extract_blog_source(article.link, article.title, article.description.v)

\* pipeline          "news" (search_news_by_keyword) or "blog"
\* keyword, max_results, hours_back   the arguments of the call
\* pc                "start", "loop" (inside for article in articles), "done"
\*                   (returned a list), "raised" (an exception reached the caller)
\* status            the outcome of the request to the feed service
\* articles          the items of the feed the loop has taken so far
\* outcomes          what the loop did with each of them
\* fetched           for each of them, whether the loop asked for its page
\*                   (_fetch_article_content / _fetch_blog_content)
\* filtered_articles, seen_titles     the locals of the call
\* result            the returned list, once pc = "done"
\* fallback          the call returned through _fallback_*_search
\* call              a direct call of a helper of the module: its name and
\*                   its arguments
\* returned          what that call returned
VARIABLES pipeline, keyword, max_results, hours_back, pc, status, articles,
          outcomes, fetched, filtered_articles, seen_titles, result, fallback,
          call, returned

vars == <<pipeline, keyword, max_results, hours_back, pc, status, articles,
          outcomes, fetched, filtered_articles, seen_titles, result, fallback,
          call, returned>>

\* no helper is called directly
NoCall ==
  [fn |-> "none", str1 |-> <<>>, str2 |-> <<>>,
   date_str |-> [fmt |-> "empty", t |-> 0, off |-> 0],
   title |-> <<>>, description |-> <<>>, link |-> <<>>, content |-> <<>>,
   source_info |-> NoSourceInfo, news_list |-> <<>>, keyword |-> <<>>,
   address |-> <<>>,
   net |-> [geocode |-> "found", lat |-> 37, lon |-> 127, forecast |-> "ok",
            hourly |-> [time |-> <<>>, temperature_2m |-> <<>>, relative_humidity_2m |-> <<>>,
                        wind_speed_10m |-> <<>>, weather_code |-> <<>>],
            current |-> "ok", current_data |-> <<>>, message |-> <<>>]]

\* the helper has not returned
NotReturned ==
  [done |-> FALSE, similarity |-> <<0, 1>>, date |-> NoDate, text |-> <<>>, lines |-> <<>>,
   dict |-> <<>>]

args == <<pipeline, keyword, max_results, hours_back>>

Init ==
  /\ pipeline \in {"news", "blog"}
  /\ keyword \in Keywords
  /\ max_results \in 0..MaxResults
  /\ hours_back \in HoursBackValues
  /\ pc = "start"
  /\ status = "none"
  /\ articles = <<>>
  /\ outcomes = <<>>
  /\ fetched = <<>>
  /\ filtered_articles = <<>>
  /\ seen_titles = {}
  /\ result = <<>>
  /\ fallback = FALSE
  /\ call = NoCall
  /\ returned = NotReturned

\* Handler without the except clause of the pipeline
Handler_unguarded(site) ==
  IF site = "fetch" THEN "inner"
  ELSE IF site = "fallback_request" THEN "fallback"
  ELSE "none"

\* The except clause that catches an exception raised at a site of the call:
\*   "request"   requests.get, response.json (lines 39-49, blog 40-50)
\*   "item"      the filters of one iteration (lines 58-69, blog 59-70)
\*   "fetch"     fetching the page and summarizing it (lines 84-85, blog 81-82)
\*   "sort"      filtered_articles.sort (line 107, blog 104)
\*   "fallback_request"   requests.get of _fallback_news_search (line 135)
\* "inner" is except Exception at line 86 (blog 83), "outer" the one at line
\* 117 (blog 114), "fallback" the one at line 149; "none" is no handler.
Handler(site) ==
  IF site = "fetch" THEN "inner"
  ELSE IF site = "fallback_request" THEN "fallback"
  ELSE "outer"

\* an exception leaves the call
Propagate == pc' = "raised" /\ UNCHANGED <<result, fallback>>

\* return _fallback_news_search(keyword, max_results) /
\* return _fallback_blog_search(keyword, max_results)
ReturnFallback ==
  \E second_status \in {"ok", "http_error", "exception"} :
     IF /\ pipeline = "news"
        /\ second_status = "exception"
        /\ Handler("fallback_request") # "fallback"
     THEN Propagate
     ELSE /\ result' = IF pipeline = "news"
                       THEN _fallback_news_search(keyword, max_results, second_status, NowHour)
                       ELSE _fallback_blog_search(keyword, max_results, NowHour)
          /\ fallback' = TRUE
          /\ pc' = "done"

\* an exception raised at a site outside the inner try
Raise(site) == IF Handler(site) = "outer" THEN ReturnFallback ELSE Propagate

\* lines 107-115 (blog 104-112): sort, drop pub_date_raw, return the first
\* max_results; an exception of the sort is caught at 117 (blog 114)
ReturnFiltered(filtered) ==
  IF SortRaises(filtered) THEN Raise("sort")
  ELSE /\ result' = Slice([i \in 1..Len(filtered) |->
                             PopRaw(SortNewestFirst(filtered)[i])],
                          0, max_results)
       /\ fallback' = FALSE
       /\ pc' = "done"

\* lines 39-49 (blog 40-50): the request to the feed service
Request ==
  /\ pc = "start"
  /\ \E st \in {"ok", "http_error", "status_error", "exception"} :
        /\ status' = st
        /\ IF st = "ok" THEN pc' = "loop" /\ UNCHANGED <<result, fallback>>
           ELSE IF st = "exception" THEN Raise("request")
           ELSE ReturnFallback
  /\ UNCHANGED <<args, articles, outcomes, fetched, filtered_articles, seen_titles, call,
                 returned>>

\* what one iteration of the loop does with an article (lines 58-69, blog
\* 59-70); "raised" is an exception that leaves the loop
Outcome(article, seen, cutoff_time) ==
  LET pub_date == _parse_pub_date(article.pubDate)
  IN  IF article.title = <<>> THEN "no_title"
      ELSE IF _is_similar_title(article.title, seen) THEN "similar"
      ELSE IF article.description.none THEN "raised"
      ELSE IF _is_ad_or_promotional(article.title, article.description.v) THEN "ad"
      ELSE IF pub_date.kind = "raise" THEN "raised"
      ELSE IF CompareRaises(pub_date) THEN "raised"
      ELSE IF TooOld(pub_date, cutoff_time) THEN "old"
      ELSE IF article.link # <<>> /\ article.page.raises /\ Handler("fetch") # "inner"
      THEN "raised"
      ELSE "accepted"

\* lines 89-98 (blog 86-95)
NewsItem(module, article) ==
  LET pub_date == _parse_pub_date(article.pubDate)
  IN  [title |-> article.title,
       summary |-> ItemSummary(module, article),
       source |-> ItemSource(module, article),
       link |-> article.link,
       pub_date |-> IF pub_date.kind = "none" THEN NoTimeInfo ELSE strftime(pub_date.t),
       pub_date_raw |-> pub_date]

\* NewsItem of every item of the pool, for both modules
PoolItems ==
  [module \in {"news", "blog"} |->
     [k \in 1..Len(ItemPool) |-> NewsItem(module, ItemPool[k])]]

\* one iteration of for article in articles (lines 56-104, blog 57-101); an
\* iteration that breaks, and one that raises, return in the same step
ProcessArticle ==
  /\ pc = "loop"
  /\ Len(articles) < MaxItems
  /\ \E k \in 1..Len(ItemPool) :
        LET \* line 84 (blog 81) is reached when no filter dropped the item and
            \* none raised: the item would be accepted if its page were fetched
            Fetches(article) ==
              /\ article.link # <<>>
              /\ Outcome([article EXCEPT !.page.raises = FALSE], seen_titles,
                         NowHour - hours_back) = "accepted"
            Iteration(article, outcome, filtered) ==
              /\ articles' = Append(articles, article)
              /\ outcomes' = Append(outcomes, outcome)
              /\ fetched' = Append(fetched, Fetches(article))
              /\ IF outcome = "raised"
                 THEN Raise("item") /\ UNCHANGED <<filtered_articles, seen_titles>>
                 ELSE IF outcome = "accepted"
                 THEN /\ filtered_articles' = filtered
                      /\ seen_titles' = seen_titles \cup {_normalize_title(article.title)}
                      /\ IF Len(filtered) >= max_results
                         THEN ReturnFiltered(filtered)
                         ELSE UNCHANGED <<pc, result, fallback>>
                 ELSE UNCHANGED <<filtered_articles, seen_titles, pc, result, fallback>>
        IN  Iteration(ItemPool[k],
                      Outcome(ItemPool[k], seen_titles, NowHour - hours_back),
                      Append(filtered_articles, PoolItems[pipeline][k]))
  /\ UNCHANGED <<args, status, call, returned>>

\* the feed has no further item: lines 107-115 (blog 104-112)
FinishLoop ==
  /\ pc = "loop"
  /\ ReturnFiltered(filtered_articles)
  /\ UNCHANGED <<args, status, articles, outcomes, fetched, filtered_articles,
                 seen_titles, call, returned>>

Next == Request \/ ProcessArticle \/ FinishLoop

Spec == Init /\ [][Next]_vars

\* ------------------------------------------------------------------------
\* Renderers
\* ------------------------------------------------------------------------

\* A rendered text is the sequence of its lines, each ended by a newline.  A
\* record of the list is a function from the keys it has to their values.

\* news.get(key, default)
Get(news, key, default) == IF key \in DOMAIN news THEN news[key] ELSE default

\* the defaults of news.get: "제목 없음", "요약 없음", "알 수 없음", "시간 정보 없음"
Placeholders ==
  [title |-> <<"h_j_e_", "h_m_o_k", " ", "h__eo_ps", "h__eu_m">>,
   summary |-> <<"h__yo_", "h__ya_k", " ", "h__eo_ps", "h__eu_m">>,
   source |-> <<"h__a_l", " ", "h_s_u_", " ", "h__eo_ps", "h__eu_m">>,
   pub_date |-> NoTimeInfo]

\* if news.get("link"), with every link line written
HasLink_always(news) == TRUE

\* if news.get("link")
HasLink(news) == Get(news, "link", <<>>) # <<>>

\* the text renderers: the message for an empty list, else the header and,
\* for i, news in enumerate(news_list, 1), the lines of the record
FormatText(label, news_list, kw) ==
  LET TextEmpty ==
        << <<>>,
           <<"s_dq">> \o kw \o <<"s_dq", " ", "h_g_wa_n", "h_r_yeo_n", " ", "h_ch_oe_", "h_s_i_n",
              " ">> \o label \o <<":">>,
           <<"-", " ", "h_g_eo_m", "h_s_ae_k", " ", "h_g_yeo_l", "h_g_wa_", "h_g_a_", " ", "h__eo_ps",
              "h_s_eu_p", "h_n_i_", "h_d_a_", ".">> >>
      TextHeader(count) ==
        << <<>>,
           <<"s_dq">> \o kw \o <<"s_dq", " ", "h_g_wa_n", "h_r_yeo_n", " ", "h_ch_oe_", "h_s_i_n",
              " ">> \o label \o <<" ", "(">> \o count \o <<"h_g_eo_n", ")", ":">>,
           <<>> >>
      TextFields(index, title, summary, source, pub_date) ==
        << index \o <<".", " ">> \o title,
           <<" ", " ", " ", "h__yo_", "h__ya_k", ":", " ">> \o summary,
           <<" ", " ", " ", "h_ch_u_l", "h_ch_eo_", ":", " ">> \o source,
           <<" ", " ", " ", "h_d_eu_ng", "h_r_o_k", ":", " ">> \o pub_date >>
      TextLink(link) ==
        << <<" ", " ", " ", "h_r_i_ng", "h_k_eu_", ":", " ">> \o link >>
      TextEntry(i, news) ==
        TextFields(NatText(i), Get(news, "title", Placeholders.title),
                   Get(news, "summary", Placeholders.summary),
                   Get(news, "source", Placeholders.source),
                   Get(news, "pub_date", Placeholders.pub_date))
          \o (IF HasLink(news) THEN TextLink(Get(news, "link", <<>>)) ELSE <<>>)
          \o << <<>> >>
      TextEntries[i \in 1..(Len(news_list) + 1)] ==
        IF i > Len(news_list) THEN <<>>
        ELSE TextEntry(i, news_list[i]) \o TextEntries[i + 1]
  IN IF news_list = <<>> THEN TextEmpty
     ELSE TextHeader(NatText(Len(news_list))) \o TextEntries[1]

\* the label is "뉴스"
format_news_info_text(news_list, kw) == FormatText(<<"h_n_yu_", "h_s_eu_">>, news_list, kw)

\* the label is "블로그"
format_blog_info_text(blog_list, kw) == FormatText(<<"h_b_eu_l", "h_r_o_", "h_g_eu_">>, blog_list, kw)

\* the HTML renderers; style holds what differs between the two
FormatHtml(style, news_list, kw) ==
  LET HtmlEmpty(icon, label) ==
        << <<>>,
           <<"<", "h", "3", ">">> \o icon \o <<" ", "s_dq">> \o kw \o <<"s_dq", " ", "h_g_wa_n",
              "h_r_yeo_n", " ", "h_ch_oe_", "h_s_i_n", " ">> \o label \o <<"<", "/", "h", "3", ">">>,
           <<"<", "p", ">", "<", "e", "m", ">", "h_g_eo_m", "h_s_ae_k", " ", "h_g_yeo_l", "h_g_wa_",
              "h_g_a_", " ", "h__eo_ps", "h_s_eu_p", "h_n_i_", "h_d_a_", ".", "<", "/", "e", "m", ">",
              "<", "/", "p", ">">> >>
      HtmlHeader(icon, label, count) ==
        << <<>>,
           <<"<", "h", "3", ">">> \o icon \o <<" ", "s_dq">> \o kw \o <<"s_dq", " ", "h_g_wa_n",
              "h_r_yeo_n", " ", "h_ch_oe_", "h_s_i_n", " ">> \o label \o <<" ",
              "(">> \o count \o <<"h_g_eo_n", ")", "<", "/", "h", "3", ">">>,
           <<"<", "d", "i", "v", " ", "s", "t", "y", "l", "e", "=", "s_dq", "m", "a", "r", "g", "i", "n",
              "-", "l", "e", "f", "t", ":", " ", "1", "0", "p", "x", ";", "s_dq", ">">> >>
      HtmlFields(color, source_icon, index, title, summary, source, pub_date) ==
        << <<>>,
           <<"<", "d", "i", "v", " ", "s", "t", "y", "l", "e", "=", "s_dq", "m", "a", "r", "g", "i", "n",
              "-", "b", "o", "t", "t", "o", "m", ":", " ", "1", "5", "p", "x", ";", " ", "p", "a", "d",
              "d", "i", "n", "g", ":", " ", "1", "0", "p", "x", ";", " ", "b", "o", "r", "d", "e", "r",
              "-", "l", "e", "f", "t", ":", " ", "3", "p", "x", " ", "s", "o", "l", "i", "d",
              " ">> \o color \o <<";", "s_dq", ">">>,
           <<" ", " ", " ", " ", "<", "h", "4", " ", "s", "t", "y", "l", "e", "=", "s_dq", "m", "a", "r",
              "g", "i", "n", ":", " ", "0", " ", "0", " ", "5", "p", "x", " ", "0", ";", " ", "c", "o",
              "l", "o", "r", ":", " ">> \o color \o <<";", "s_dq", ">">>,
           <<" ", " ", " ", " ", " ", " ", " ", " ">> \o index \o <<".", " ">> \o title,
           <<" ", " ", " ", " ", "<", "/", "h", "4", ">">>,
           <<" ", " ", " ", " ", "<", "p", " ", "s", "t", "y", "l", "e", "=", "s_dq", "m", "a", "r", "g",
              "i", "n", ":", " ", "5", "p", "x", " ", "0", ";", " ", "c", "o", "l", "o", "r", ":", " ",
              "#", "5", "5", "5", ";", " ", "f", "o", "n", "t", "-", "s", "i", "z", "e", ":", " ", "1",
              "4", "p", "x", ";", "s_dq", ">">>,
           <<" ", " ", " ", " ", " ", " ", " ", " ", "s_memo", " ", "<", "s", "t", "r", "o", "n", "g",
              ">", "h__yo_", "h__ya_k", ":", "<", "/", "s", "t", "r", "o", "n", "g", ">",
              " ">> \o summary,
           <<" ", " ", " ", " ", "<", "/", "p", ">">>,
           <<" ", " ", " ", " ", "<", "p", " ", "s", "t", "y", "l", "e", "=", "s_dq", "m", "a", "r", "g",
              "i", "n", ":", " ", "5", "p", "x", " ", "0", ";", " ", "c", "o", "l", "o", "r", ":", " ",
              "#", "7", "7", "7", ";", " ", "f", "o", "n", "t", "-", "s", "i", "z", "e", ":", " ", "1",
              "2", "p", "x", ";", "s_dq", ">">>,
           <<" ", " ", " ", " ", " ", " ", " ", " ">> \o source_icon \o <<" ", "<", "s", "t", "r", "o",
              "n", "g", ">", "h_ch_u_l", "h_ch_eo_", ":", "<", "/", "s", "t", "r", "o", "n", "g", ">",
              " ">> \o source \o <<" ", "|">>,
           <<" ", " ", " ", " ", " ", " ", " ", " ", "s_clock", " ", "<", "s", "t", "r", "o", "n", "g",
              ">", "h_d_eu_ng", "h_r_o_k", ":", "<", "/", "s", "t", "r", "o", "n", "g", ">",
              " ">> \o pub_date,
           <<" ", " ", " ", " ", "<", "/", "p", ">">> >>
      HtmlLink(color, link_label, link) ==
        << <<>>,
           <<" ", " ", " ", " ", "<", "p", " ", "s", "t", "y", "l", "e", "=", "s_dq", "m", "a", "r", "g",
              "i", "n", ":", " ", "5", "p", "x", " ", "0", ";", " ", "f", "o", "n", "t", "-", "s", "i",
              "z", "e", ":", " ", "1", "2", "p", "x", ";", "s_dq", ">">>,
           <<" ", " ", " ", " ", " ", " ", " ", " ", "s_chain", " ", "<", "a", " ", "h", "r", "e", "f",
              "=", "s_dq">> \o link \o <<"s_dq", " ", "s", "t", "y", "l", "e", "=", "s_dq", "c", "o",
              "l", "o", "r", ":", " ">> \o color \o <<";", "s_dq", ">">> \o link_label \o <<"<", "/",
              "a", ">">>,
           <<" ", " ", " ", " ", "<", "/", "p", ">">> >>
      DivEnd == <<"<", "/", "d", "i", "v", ">">>
      HtmlEntry(i, news) ==
        HtmlFields(style.color, style.source_icon, NatText(i),
                   Get(news, "title", Placeholders.title),
                   Get(news, "summary", Placeholders.summary),
                   Get(news, "source", Placeholders.source),
                   Get(news, "pub_date", Placeholders.pub_date))
          \o (IF HasLink(news) THEN HtmlLink(style.color, style.link_label, Get(news, "link", <<>>))
              ELSE <<>>)
          \o <<DivEnd>>
      HtmlEntries[i \in 1..(Len(news_list) + 1)] ==
        IF i > Len(news_list) THEN <<>>
        ELSE HtmlEntry(i, news_list[i]) \o HtmlEntries[i + 1]
  IN IF news_list = <<>> THEN HtmlEmpty(style.icon, style.label)
     ELSE HtmlHeader(style.icon, style.label, NatText(Len(news_list)))
            \o HtmlEntries[1] \o <<DivEnd>>

format_news_info_html(news_list, kw) ==
  FormatHtml([icon |-> <<"s_newspaper">>, label |-> <<"h_n_yu_", "h_s_eu_">>, color |-> <<"#", "0", "0", "7", "a", "c", "c">>,
   source_icon |-> <<"s_tv">>, link_label |-> <<"h_g_i_", "h_s_a_", " ", "h_r_i_ng", "h_k_eu_">>], news_list, kw)

format_blog_info_html(blog_list, kw) ==
  FormatHtml([icon |-> <<"s_writing", "s_vs16">>, label |-> <<"h_b_eu_l", "h_r_o_", "h_g_eu_">>, color |-> <<"#", "2", "8", "a", "7", "4", "5">>,
   source_icon |-> <<"s_writing", "s_vs16">>, link_label |-> <<"h_b_eu_l", "h_r_o_", "h_g_eu_", " ", "h_r_i_ng", "h_k_eu_">>], blog_list, kw)

\* ------------------------------------------------------------------------
\* Weather
\* ------------------------------------------------------------------------

\* The answers of the two services are the record net: geocode and forecast
\* are "raise" (requests.get raises), "error" (a status other than 200) or an
\* answer; hourly holds the lists of the forecast, a time being the day after
\* today and the hour; current is the answer to the current-conditions request.

\* get_weather_description(weather_code)
get_weather_description(weather_code) ==
  LET weather_codes ==
        (0 :> <<"h_m_a_lk", "h__eu_m">>) @@ (1 :> <<"h_d_ae_", "h_ch_e_",
                                                    "h_r_o_",
                                                    " ",
                                                    "h_m_a_lk",
                                                    "h__eu_m">>) @@ (2 :> <<"h_b_u_",
                                                                            "h_b_u_n",
                                                                            "h_j_eo_k",
                                                                            "h__eu_",
                                                                            "h_r_o_",
                                                                            " ",
                                                                            "h_h_eu_",
                                                                            "h_r_i_m">>) @@ (3 :> <<"h_h_eu_",
                                                                                                    "h_r_i_m">>)
        @@ (45 :> <<"h__a_n", "h_g_ae_">>) @@ (48 :> <<"h_s_eo_", "h_r_i_",
                                                       " ",
                                                       "h__a_n",
                                                       "h_g_ae_">>) @@ (51 :> <<"h_g_a_",
                                                                                "h_b_yeo_",
                                                                                "h__u_n",
                                                                                " ",
                                                                                "h__i_",
                                                                                "h_s_eu_l",
                                                                                "h_b_i_">>)
        @@ (53 :> <<"h_b_o_", "h_t_o_ng", " ", "h__i_", "h_s_eu_l", "h_b_i_">>) @@ (55 :> <<"h_g_a_ng",
                                                                                            "h_h_a_n",
                                                                                            " ",
                                                                                            "h__i_",
                                                                                            "h_s_eu_l",
                                                                                            "h_b_i_">>) @@ (56 :> <<"h_g_a_",
                                                                                                                    "h_b_yeo_",
                                                                                                                    "h__u_n",
                                                                                                                    " ",
                                                                                                                    "h__eo_l",
                                                                                                                    "h__eu_m",
                                                                                                                    " ",
                                                                                                                    "h__i_",
                                                                                                                    "h_s_eu_l",
                                                                                                                    "h_b_i_">>)
        @@ (57 :> <<"h_g_a_ng", "h_h_a_n", " ", "h__eo_l", "h__eu_m", " ",
                    "h__i_", "h_s_eu_l", "h_b_i_">>) @@ (61 :> <<"h__ya_k",
                                                                 "h_h_a_n",
                                                                 " ",
                                                                 "h_b_i_">>) @@ (63 :> <<"h_b_o_",
                                                                                         "h_t_o_ng",
                                                                                         " ",
                                                                                         "h_b_i_">>)
        @@ (65 :> <<"h_g_a_ng", "h_h_a_n", " ", "h_b_i_">>) @@ (66 :> <<"h_g_a_",
                                                                        "h_b_yeo_",
                                                                        "h__u_n",
                                                                        " ",
                                                                        "h__eo_l",
                                                                        "h__eu_m",
                                                                        "h_b_i_">>) @@ (67 :> <<"h_g_a_ng",
                                                                                                "h_h_a_n",
                                                                                                " ",
                                                                                                "h__eo_l",
                                                                                                "h__eu_m",
                                                                                                "h_b_i_">>)
        @@ (71 :> <<"h__ya_k", "h_h_a_n", " ", "h_n_u_n">>) @@ (73 :> <<"h_b_o_",
                                                                        "h_t_o_ng",
                                                                        " ",
                                                                        "h_n_u_n">>) @@ (75 :> <<"h_g_a_ng",
                                                                                                 "h_h_a_n",
                                                                                                 " ",
                                                                                                 "h_n_u_n">>) @@ (77 :> <<"h_j_i_n",
                                                                                                                          "h_n_u_n",
                                                                                                                          "h_kk_ae_",
                                                                                                                          "h_b_i_">>)
        @@ (80 :> <<"h__ya_k", "h_h_a_n", " ", "h_s_o_", "h_n_a_", "h_g_i_">>) @@ (81 :> <<"h_b_o_",
                                                                                           "h_t_o_ng",
                                                                                           " ",
                                                                                           "h_s_o_",
                                                                                           "h_n_a_",
                                                                                           "h_g_i_">>) @@ (82 :> <<"h_g_a_ng",
                                                                                                                   "h_h_a_n",
                                                                                                                   " ",
                                                                                                                   "h_s_o_",
                                                                                                                   "h_n_a_",
                                                                                                                   "h_g_i_">>)
        @@ (85 :> <<"h__ya_k", "h_h_a_n", " ", "h_n_u_n", " ", "h_s_o_",
                    "h_n_a_", "h_g_i_">>) @@ (86 :> <<"h_g_a_ng", "h_h_a_n",
                                                      " ",
                                                      "h_n_u_n",
                                                      " ",
                                                      "h_s_o_",
                                                      "h_n_a_",
                                                      "h_g_i_">>) @@ (95 :> <<"h_n_oe_",
                                                                              "h__u_">>)
        @@ (96 :> <<"h__ya_k", "h_h_a_n", " ", "h__u_", "h_b_a_k", "h__eu_l",
                    " ", "h_d_o_ng", "h_b_a_n", "h_h_a_n",
                    " ", "h_n_oe_", "h__u_">>) @@ (99 :> <<"h_g_a_ng",
                                                           "h_h_a_n",
                                                           " ",
                                                           "h__u_",
                                                           "h_b_a_k",
                                                           "h__eu_l",
                                                           " ",
                                                           "h_d_o_ng",
                                                           "h_b_a_n",
                                                           "h_h_a_n",
                                                           " ",
                                                           "h_n_oe_",
                                                           "h__u_">>)
  IN IF weather_code \in DOMAIN weather_codes THEN weather_codes[weather_code]
     ELSE <<"h__a_l", " ", "h_s_u_", " ", "h__eo_ps", "h__eu_m">>

\* get_weather_by_coordinates(lat, lon); the values are whole numbers >= 0
get_weather_by_coordinates(lat, lon, net) ==
  LET failed(condition) ==
        [temperature |-> <<"h_j_o_", "h_h_oe_", " ", "h_s_i_l", "h_p_ae_">>, humidity |-> <<"h_j_o_",
                                                                                            "h_h_oe_",
                                                                                            " ",
                                                                                            "h_s_i_l",
                                                                                            "h_p_ae_">>, wind_speed |-> <<"h_j_o_",
                                                                                                                          "h_h_oe_",
                                                                                                                          " ",
                                                                                                                          "h_s_i_l",
                                                                                                                          "h_p_ae_">>,
         condition |-> condition, time_range |-> <<"1", "9", ":", "0", "0",
                                                   "~",
                                                   "2",
                                                   "1",
                                                   ":",
                                                   "0",
                                                   "0">>, status |-> "error"]
      hourly == net.hourly
      \* any(target_time in time_str for target_time in target_hours)
      targets == {i \in 1..Len(hourly.time) :
                    hourly.time[i].day = 0 /\ hourly.time[i].hour \in {19, 20, 21}}
      \* the values appended for the matching times: those with i < len(list)
      picked(list) ==
        LET idx == {i \in targets : i <= Len(list)}
            at[k \in 0..Len(list)] ==
              IF k = 0 THEN <<>>
              ELSE IF k \in idx THEN Append(at[k - 1], list[k]) ELSE at[k - 1]
        IN at[Len(list)]
      sum(s) ==
        LET acc[k \in 0..Len(s)] == IF k = 0 THEN 0 ELSE acc[k - 1] + s[k]
        IN acc[Len(s)]
      temperatures == picked(hourly.temperature_2m)
      humidities == picked(hourly.relative_humidity_2m)
      wind_speeds == picked(hourly.wind_speed_10m)
      weather_codes == picked(hourly.weather_code)
      \* max(set(weather_codes), key=weather_codes.count): the first of the
      \* most frequent codes in the order of the set, ascending for codes
      \* below 8
      codes == {weather_codes[k] : k \in 1..Len(weather_codes)}
      count(c) == Cardinality({k \in 1..Len(weather_codes) : weather_codes[k] = c})
      most_common ==
        IF weather_codes = <<>> THEN 0
        ELSE SetMin({c \in codes : \A d \in codes : count(d) <= count(c)})
      \* f"{n / d:.1f}" and f"{n / d:.0f}", which rounds a half to the even
      fixed1(n, d) ==
        LET tenths == (20 * n + d) \div (2 * d)
        IN NatText(tenths \div 10) \o <<".">> \o NatText(tenths % 10)
      fixed0(n, d) ==
        LET q == n \div d
            r == n % d
        IN NatText(IF 2 * r < d THEN q ELSE IF 2 * r > d THEN q + 1
                   ELSE IF q % 2 = 0 THEN q ELSE q + 1)
      success(temp, temp_n, humidity, humidity_n, wind, wind_n, code) ==
        [temperature |-> fixed1(temp, temp_n) \o <<"s_deg", "C">>,
         humidity |-> fixed0(humidity, humidity_n) \o <<"%">>,
         wind_speed |-> fixed1(wind, wind_n) \o <<" ", "k", "m", "/", "h">>,
         condition |-> get_weather_description(code),
         time_range |-> <<"1", "9", ":", "0", "0", "~", "2", "1", ":", "0",
                          "0">>, status |-> "success"]
      value(key) == IF key \in DOMAIN net.current_data THEN net.current_data[key] ELSE 0
  IN IF net.forecast = "raise" THEN failed(<<"h__o_", "h_r_yu_", ":", " ">> \o net.message)
     ELSE IF net.forecast = "error" THEN failed(<<"h_j_o_", "h_h_oe_", " ",
                                                  "h_s_i_l",
                                                  "h_p_ae_">>)
     ELSE IF temperatures # <<>>
       THEN success(sum(temperatures), Len(temperatures),
                    sum(humidities), IF humidities = <<>> THEN 1 ELSE Len(humidities),
                    sum(wind_speeds), IF wind_speeds = <<>> THEN 1 ELSE Len(wind_speeds),
                    most_common)
     ELSE IF net.current = "raise" THEN failed(<<"h__o_", "h_r_yu_", ":",
                                                 " ">> \o net.message)
     ELSE IF net.current = "error" THEN success(0, 1, 0, 1, 0, 1, 0)
     ELSE success(value("temperature_2m"), 1, value("relative_humidity_2m"), 1,
                  value("wind_speed_10m"), 1, value("weather_code"))

\* get_weather_by_address(address); get_coordinates_by_address gives None
\* when the request raises, its status is not 200 or its answer is empty
get_weather_by_address(address, net) ==
  IF net.geocode \in {"raise", "error", "empty"}
  THEN [temperature |-> <<"h_j_u_", "h_s_o_", " ", "h_j_o_", "h_h_oe_", " ",
                          "h_s_i_l", "h_p_ae_">>, humidity |-> <<"h_j_u_",
                                                                 "h_s_o_",
                                                                 " ",
                                                                 "h_j_o_",
                                                                 "h_h_oe_",
                                                                 " ",
                                                                 "h_s_i_l",
                                                                 "h_p_ae_">>,
        wind_speed |-> <<"h_j_u_", "h_s_o_", " ", "h_j_o_", "h_h_oe_", " ",
                         "h_s_i_l", "h_p_ae_">>, condition |-> <<"h_j_u_",
                                                                 "h_s_o_",
                                                                 "h_r_eu_l",
                                                                 " ",
                                                                 "h_ch_a_j",
                                                                 "h__eu_l",
                                                                 " ",
                                                                 "h_s_u_",
                                                                 " ",
                                                                 "h__eo_ps",
                                                                 "h_s_eu_p",
                                                                 "h_n_i_",
                                                                 "h_d_a_">>,
        status |-> "address_error", address |-> address]
  ELSE LET weather == get_weather_by_coordinates(net.lat, net.lon, net)
       IN [temperature |-> weather.temperature, humidity |-> weather.humidity,
           wind_speed |-> weather.wind_speed, condition |-> weather.condition,
           time_range |-> weather.time_range, status |-> weather.status,
           address |-> address]

\* ------------------------------------------------------------------------
\* Direct calls of the helpers
\* ------------------------------------------------------------------------

\* the longest list handed to a renderer
MaxListed == 3

Renderers ==
  {"format_news_info_text", "format_news_info_html", "format_blog_info_text",
   "format_blog_info_html"}

\* _generate_summary of news_utils.py and of blog_utils.py
Summarizers == {"news_utils._generate_summary", "blog_utils._generate_summary"}

\* the calls of the helpers: each helper with the values it is called with
Calls ==
  LET \* the strings _calculate_similarity is called with
      SimilarityTexts ==
        { <<>>, <<" ">>, <<"a">>, <<"a", " ", "b">>, <<"b", " ", " ", "a">>,
          <<"a", " ", "b", " ", "c">>, <<"c", " ", "d">>, <<" ", "a", " ", "a", "\t">> }
      \* the values _parse_pub_date is called with
      DateInputs ==
        [fmt : DateShapes, t : {NowHour - 30, NowHour - 1}, off : {0, 9}]
      \* the forms of the upstream "source" field: absent, a dict with a title, with
      \* an empty title, with a name only, a string, the empty string, a number
      SourceHints ==
        { NoSourceInfo,
          [NoSourceInfo EXCEPT !.kind = "dict", !.has_title = TRUE, !.title = <<"h__yeo_n", "h_h_a_p", "h_n_yu_", "h_s_eu_">>],
          [NoSourceInfo EXCEPT !.kind = "dict", !.has_title = TRUE, !.has_name = TRUE, !.name = <<"K", "B", "S">>],
          [NoSourceInfo EXCEPT !.kind = "dict", !.has_name = TRUE, !.name = <<"K", "B", "S">>],
          [NoSourceInfo EXCEPT !.kind = "str", !.title = <<"M", "B", "C">>],
          [NoSourceInfo EXCEPT !.kind = "str"],
          [NoSourceInfo EXCEPT !.kind = "other"] }
      \* titles without and with a trailing "- publisher"
      SourceTitles ==
        { <<"x">>, <<"x", " ", "-", " ", "h_h_a_n", "h_g_u_k", "h_n_yu_", "h_s_eu_">> }
      \* descriptions: empty, with a trailing "- publisher", with "(publisher)"
      SourceDescriptions ==
        { <<>>, <<"y", " ", "-", " ", "h_s_eo_", "h__u_l", "h_s_i_n", "h_m_u_n">>, <<"z", " ", "(", "h_h_a_n", "h_g_u_k", "h__i_l", "h_b_o_", ")">> }
      \* links: none, a known publisher, a path without host, an unknown host
      SourceLinks ==
        { <<>>, <<"h", "t", "t", "p", "s", ":", "/", "/", "w", "w", "w", ".", "c", "h", "o", "s", "u", "n", ".", "c", "o", "m", "/", "1">>,
          <<"/", "l", "o", "c", "a", "l", "/", "p", "a", "t", "h">>, <<"h", "t", "t", "p", "s", ":", "/", "/", "e", "x", "a", "m", "p", "l", "e", ".", "o", "r", "g", "/", "2">> }
      \* titles: none, plain, 43 characters before ": 네이버 블로그", "- 티스토리",
      \* a title naming 브런치
      BlogTitles ==
        { <<>>, <<"p", "l", "a", "i", "n">>,
          <<"t", "h", "e", " ", "q", "u", "i", "c", "k", " ", "b", "r", "o", "w", "n", " ", "f", "o", "x", " ", "j", "u", "m", "p", "s", " ", "o", "v", "e", "r", " ", "t", "h", "e", " ", "l", "a", "z", "y", " ", "d", "o", "g", " ", ":", " ", "h_n_e_", "h__i_", "h_b_eo_", " ", "h_b_eu_l", "h_r_o_", "h_g_eu_">>,
          <<"s", "h", "o", "r", "t", " ", "-", " ", "h_t_i_", "h_s_eu_", "h_t_o_", "h_r_i_">>, <<"h_b_eu_", "h_r_eo_n", "h_ch_i_", " ", "h_g_eu_l">> }
      BlogDescriptions ==
        { <<>>, <<"z", " ", "(", "h_m_a_s", "h_j_i_p", " ", "h_b_eu_l", "h_r_o_", "h_g_eu_", ")">> }
      \* links: none, a tistory blog, a naver blog, a host that is no blog platform
      BlogLinks ==
        { <<>>, <<"h", "t", "t", "p", "s", ":", "/", "/", "m", "y", "b", "l", "o", "g", ".", "t", "i", "s", "t", "o", "r", "y", ".", "c", "o", "m", "/", "1", "2", "3">>,
          <<"h", "t", "t", "p", "s", ":", "/", "/", "b", "l", "o", "g", ".", "n", "a", "v", "e", "r", ".", "c", "o", "m", "/", "u", "s", "e", "r", "1", "/", "3">>,
          <<"h", "t", "t", "p", "s", ":", "/", "/", "w", "w", "w", ".", "c", "h", "o", "s", "u", "n", ".", "c", "o", "m", "/", "1">> }
      \* records handed to the renderers: with a link, with an empty link, without
      \* the link key, with a title only
      RenderRecords ==
        { [title |-> <<"f", "i", "r", "s", "t", " ", "i", "t", "e", "m">>, summary |-> <<"o", "n", "e", " ", "s", "e", "n", "t", "e", "n", "c", "e", ".">>, source |-> <<"h_j_o_", "h_s_eo_n", "h__i_l", "h_b_o_">>,
           link |-> <<"h", "t", "t", "p", "s", ":", "/", "/", "e", "x", "a", "m", "p", "l", "e", ".", "c", "o", "m", "/", "1">>, pub_date |-> <<"5", " ", "1", "0", ":", "3", "0">>],
          [title |-> <<"s", "e", "c", "o", "n", "d", " ", "i", "t", "e", "m">>, summary |-> <<"a", "n", "o", "t", "h", "e", "r", " ", "t", "e", "x", "t", ".">>, source |-> <<"K", "B", "S">>,
           link |-> <<>>, pub_date |-> NoTimeInfo],
          [title |-> <<"t", "h", "i", "r", "d", " ", "i", "t", "e", "m">>, summary |-> <<"m", "o", "r", "e", " ", "w", "o", "r", "d", "s", ".">>, source |-> <<"m", "y", "b", "l", "o", "g", " ", "(", "h_t_i_", "h_s_eu_", "h_t_o_", "h_r_i_", ")">>, pub_date |-> <<"4", " ", "0", "9", ":", "0", "0">>],
          [title |-> <<"b", "a", "r", "e", " ", "i", "t", "e", "m">>] }
      RenderLists ==
        UNION {[1..n -> RenderRecords] : n \in 0..MaxListed}
      \* the forecast: its times (the day after today, the hour) and the first n
      \* values of each list; the current conditions with and without values
      Times ==
        { <<>>, <<[day |-> 0, hour |-> 18], [day |-> 0, hour |-> 19], [day |-> 0, hour |-> 20], [day |-> 0, hour |-> 21]>>,
          <<[day |-> 0, hour |-> 19], [day |-> 0, hour |-> 20]>>, <<[day |-> 0, hour |-> 19], [day |-> 1, hour |-> 20]>>,
          <<[day |-> 0, hour |-> 17], [day |-> 1, hour |-> 19]>> }
      First(list, n) == [k \in 1..n |-> list[k]]
      Hourlies ==
        {[time |-> t, temperature_2m |-> First(<<17, 18, 20, 21>>, a),
          relative_humidity_2m |-> First(<<40, 45, 50, 52>>, b),
          wind_speed_10m |-> First(<<3, 4, 4, 8>>, c), weather_code |-> First(<<3, 0, 0, 3>>, d)] :
           t \in Times, a \in {0, 2, 4}, b \in {0, 2, 4}, c \in {0, 4}, d \in {0, 4}}
      Net == NoCall.net
      Answered ==
        {[Net EXCEPT !.hourly = h, !.current = "raise", !.message = <<"t",
                                                                      "i",
                                                                      "m",
                                                                      "e",
                                                                      "d",
                                                                      " ",
                                                                      "o",
                                                                      "u",
                                                                      "t">>] : h \in Hourlies}
        \cup {[Net EXCEPT !.hourly = h, !.current = "error"] : h \in Hourlies}
        \cup {[Net EXCEPT !.hourly = h] : h \in Hourlies}
        \cup {[Net EXCEPT !.hourly = h,
                          !.current_data = [temperature_2m |-> 21, relative_humidity_2m |-> 40,
                                            wind_speed_10m |-> 7, weather_code |-> 61]] : h \in Hourlies}
      Forecasts ==
        {[Net EXCEPT !.forecast = "raise", !.message = <<"t", "i", "m", "e",
                                                         "d",
                                                         " ",
                                                         "o",
                                                         "u",
                                                         "t">>], [Net EXCEPT !.forecast = "error"]}
        \cup Answered
      \* _generate_summary: titles; page texts that are empty, short, of three
      \* kept sentences the best of which repeats the first title, of two, of
      \* three in ascending order of score, of dropped sentences only;
      \* descriptions that are empty, short, a repetition of the first title, usable
      SummaryTitles == { <<"h_n_yu_", "h_s_eu_", " ", "h_s_eo_", "h_b_i_",
                           "h_s_eu_", " ",
                           "h_g_eo_m", "h_s_ae_k",
                           " ", "h_g_yeo_l",
                           "h_g_wa_", " ", "h_n_ae_",
                           "h__yo_ng", " ",
                           "h_h_wa_k", "h__i_n">>, <<"h_s_eo_", "h_b_i_",
                                                     "h_s_eu_",
                                                     " ",
                                                     "h_m_u_n",
                                                     "h_j_e_",
                                                     " ",
                                                     "h_b_a_l",
                                                     "h_p_yo_">>, <<"a", " ",
                                                                    "b">> }
      SummaryContents ==
        { <<>>, <<"s", "h", "o", "r", "t", ".">>,
          <<"h_n_yu_", "h_s_eu_", " ", "h_s_eo_", "h_b_i_", "h_s_eu_", " ",
            "h_g_eo_m", "h_s_ae_k", " ", "h_g_yeo_l", "h_g_wa_",
            " ", "h_n_ae_", "h__yo_ng", " ", "h_h_wa_k", "h__i_n",
            " ", "z", "z", ".", " ", "q", "q", "q", "q", "q", "q",
            "q", "q", "q", "q", "q", "q", "q", "q", "q", "q", "q",
            "q", "q", "q", "q", "q", "q", "q", "q", ".", " ", "r",
            "r", "r", "r", "r", "r", "r", "r", "r", "r", "r", "r",
            "r", "r", "r", "r", "r", "r", "r", "r", "r", "r", "r",
            "r", "r">>,
          <<"h_n_yu_", "h_s_eu_", " ", "h_s_eo_", "h_b_i_", "h_s_eu_", " ",
            "h_g_eo_m", "h_s_ae_k", " ", "h_g_yeo_l", "h_g_wa_",
            " ", "h_n_ae_", "h__yo_ng", " ", "h_h_wa_k", "h__i_n",
            " ", "z", "z", ".", " ", "q", "q", "q", "q", "q", "q",
            "q", "q", "q", "q", "q", "q", "q", "q", "q", "q", "q",
            "q", "q", "q", "q", "q", "q", "q", "q", "q", "q", "q",
            "q", "q">>,
          <<"q", "q", "q", "q", "q", "q", "q", "q", "q", "q", "q", "q", "q",
            "q", "q", "q", "q", "q", "q", "q", "q", "q", "q", "q",
            "q", ".", " ", "h_s_eo_", "h_b_i_", "h_s_eu_", " ",
            "h_m_u_n", "h_j_e_", " ", "h_b_a_l", "h_s_ae_ng", " ",
            "a", "b", "c", "d", "e", "f", "g", "h", "i", "j", "k",
            "l", "m", "n", "o", "p", "q", "r", "s", "t", "u", "v",
            "w", "x", "y", "z", ".", " ", "h_n_yu_", "h_s_eu_", " ",
            "h_s_eo_", "h_b_i_", "h_s_eu_", " ", "h_g_eo_m",
            "h_s_ae_k", " ", "h_g_yeo_l", "h_g_wa_", " ", "h_n_ae_",
            "h__yo_ng", " ", "h_h_wa_k", "h__i_n", " ", "z", "z">>,
          <<"h_g_i_", "h_j_a_", " ", "a", "a", "a", "a", "a", "a", "a", "a",
            "a", "a", "a", "a", "a", "a", "a", "a", "a", "a", "a",
            "a", "a", "a", "a", "a", "a", "a", "a", "a", "a", "a",
            ".", " ", "b", "b", "b", "b", "b", "b", "b", "b", "b",
            "b", "b", "b", "b", "b", "b", "b", "b", "b", "b", "b",
            "b", "b", "b", "b", "b", "b", "b", "b", "b", "b", " ",
            "h_g_wa_ng", "h_g_o_">> }
      SummaryDescriptions ==
        { <<>>, <<"x", "x", "x", "x", "x", "x", "x", "x", "x", "x", "x", "x",
                  "x", "x", "x", "x", "x", "x", "x">>, <<"h_n_yu_", "h_s_eu_",
                                                         " ",
                                                         "h_s_eo_",
                                                         "h_b_i_",
                                                         "h_s_eu_",
                                                         " ",
                                                         "h_g_eo_m",
                                                         "h_s_ae_k",
                                                         " ",
                                                         "h_g_yeo_l",
                                                         "h_g_wa_",
                                                         " ",
                                                         "h_n_ae_",
                                                         "h__yo_ng",
                                                         " ",
                                                         "h_h_wa_k",
                                                         "h__i_n",
                                                         " ",
                                                         "h_m_u_n",
                                                         "h_j_e_",
                                                         " ",
                                                         "-",
                                                         " ",
                                                         "h_s_i_",
                                                         "h_s_eu_",
                                                         "h_t_e_m",
                                                         "h_n_yu_",
                                                         "h_s_eu_">>,
          <<"h_s_eo_", "h_b_i_", "h_s_eu_", " ", "h_j_a_ng", "h__ae_", " ",
            "h_n_ae_", "h__yo_ng", " ", "h_g_i_", "h_s_a_", "1",
            "2", " ", "a", "n", "d", " ", "a", " ", "f", "e", "w",
            " ", "m", "o", "r", "e", " ", "w", "o", "r", "d", "s",
            " ", "h", "e", "r", "e">> }
      SummaryCalls ==
        {[NoCall EXCEPT !.fn = f, !.title = t, !.content = c, !.description = d] :
           f \in Summarizers, t \in SummaryTitles, c \in SummaryContents,
           d \in SummaryDescriptions}
      Geocoded ==
        {[Net EXCEPT !.geocode = g] : g \in {"raise", "error", "empty"}} \cup Forecasts
  IN {[NoCall EXCEPT !.fn = "_calculate_similarity", !.str1 = a, !.str2 = b] :
        a \in SimilarityTexts, b \in SimilarityTexts}
     \cup {[NoCall EXCEPT !.fn = "_parse_pub_date", !.date_str = d] : d \in DateInputs}
     \cup {[NoCall EXCEPT !.fn = "news_source", !.source_info = h, !.title = t, !.description = d, !.link = l] :
             h \in SourceHints, t \in SourceTitles, d \in SourceDescriptions, l \in SourceLinks}
     \cup {[NoCall EXCEPT !.fn = "_extract_blog_source", !.link = l, !.title = t, !.description = d] :
             l \in BlogLinks, t \in BlogTitles, d \in BlogDescriptions}
     \cup {[NoCall EXCEPT !.fn = f, !.news_list = l, !.keyword = <<"A", "I">>] :
             f \in Renderers, l \in RenderLists}
     \cup SummaryCalls
     \cup {[NoCall EXCEPT !.fn = "get_weather_by_coordinates", !.net = n] : n \in Forecasts}
     \cup {[NoCall EXCEPT !.fn = "get_weather_by_address", !.address = <<"h_s_eo_",
                                                                         "h__u_l">>, !.net = n] :
             n \in Geocoded}

InitFn ==
  /\ pipeline = "none"
  /\ keyword = <<>>
  /\ max_results = 0
  /\ hours_back = 0
  /\ pc = "idle"
  /\ status = "none"
  /\ articles = <<>>
  /\ outcomes = <<>>
  /\ fetched = <<>>
  /\ filtered_articles = <<>>
  /\ seen_titles = {}
  /\ result = <<>>
  /\ fallback = FALSE
  /\ call \in Calls
  /\ returned = NotReturned

pipeline_vars ==
  <<pipeline, keyword, max_results, hours_back, pc, status, articles, outcomes,
    fetched, filtered_articles, seen_titles, result, fallback>>

\* _calculate_similarity(str1, str2)
CalculateSimilarity ==
  /\ call.fn = "_calculate_similarity"
  /\ ~returned.done
  /\ returned' = [NotReturned EXCEPT !.done = TRUE,
                                     !.similarity = _calculate_similarity(call.str1, call.str2)]
  /\ UNCHANGED <<pipeline_vars, call>>

\* _parse_pub_date(date_str)
ParsePubDate ==
  /\ call.fn = "_parse_pub_date"
  /\ ~returned.done
  /\ returned' = [NotReturned EXCEPT !.done = TRUE, !.date = _parse_pub_date(call.date_str)]
  /\ UNCHANGED <<pipeline_vars, call>>

\* search_news_by_keyword lines 75-80: _extract_source of the "source" field,
\* then _extract_source_from_title_and_description when it gave the placeholder
ExtractNewsSource ==
  /\ call.fn = "news_source"
  /\ ~returned.done
  /\ returned' = [NotReturned EXCEPT
                    !.done = TRUE,
                    !.text = ItemSource("news", [title |-> call.title,
                                                 description |-> [none |-> FALSE, v |-> call.description],
                                                 link |-> call.link,
                                                 source |-> call.source_info])]
  /\ UNCHANGED <<pipeline_vars, call>>

\* _extract_blog_source(link, title, description)
ExtractBlogSource ==
  /\ call.fn = "_extract_blog_source"
  /\ ~returned.done
  /\ returned' = [NotReturned EXCEPT
                    !.done = TRUE,
                    !.text = _extract_blog_source(call.link, call.title, call.description)]
  /\ UNCHANGED <<pipeline_vars, call>>

\* format_news_info_text(news_list, keyword)
FormatNewsInfoText ==
  /\ call.fn = "format_news_info_text"
  /\ ~returned.done
  /\ returned' = [NotReturned EXCEPT !.done = TRUE,
                                     !.lines = format_news_info_text(call.news_list, call.keyword)]
  /\ UNCHANGED <<pipeline_vars, call>>

\* format_news_info_html(news_list, keyword)
FormatNewsInfoHtml ==
  /\ call.fn = "format_news_info_html"
  /\ ~returned.done
  /\ returned' = [NotReturned EXCEPT !.done = TRUE,
                                     !.lines = format_news_info_html(call.news_list, call.keyword)]
  /\ UNCHANGED <<pipeline_vars, call>>

\* format_blog_info_text(blog_list, keyword)
FormatBlogInfoText ==
  /\ call.fn = "format_blog_info_text"
  /\ ~returned.done
  /\ returned' = [NotReturned EXCEPT !.done = TRUE,
                                     !.lines = format_blog_info_text(call.news_list, call.keyword)]
  /\ UNCHANGED <<pipeline_vars, call>>

\* format_blog_info_html(blog_list, keyword)
FormatBlogInfoHtml ==
  /\ call.fn = "format_blog_info_html"
  /\ ~returned.done
  /\ returned' = [NotReturned EXCEPT !.done = TRUE,
                                     !.lines = format_blog_info_html(call.news_list, call.keyword)]
  /\ UNCHANGED <<pipeline_vars, call>>

\* news_utils._generate_summary(title, content, description)
GenerateNewsSummary ==
  /\ call.fn = "news_utils._generate_summary"
  /\ ~returned.done
  /\ returned' = [NotReturned EXCEPT
                    !.done = TRUE,
                    !.text = news_generate_summary(call.title, call.content, call.description)]
  /\ UNCHANGED <<pipeline_vars, call>>

\* blog_utils._generate_summary(title, content, description)
GenerateBlogSummary ==
  /\ call.fn = "blog_utils._generate_summary"
  /\ ~returned.done
  /\ returned' = [NotReturned EXCEPT
                    !.done = TRUE,
                    !.text = blog_generate_summary(call.title, call.content, call.description)]
  /\ UNCHANGED <<pipeline_vars, call>>

\* get_weather_by_coordinates(lat, lon)
GetWeatherByCoordinates ==
  /\ call.fn = "get_weather_by_coordinates"
  /\ ~returned.done
  /\ returned' = [NotReturned EXCEPT
                    !.done = TRUE,
                    !.dict = get_weather_by_coordinates(call.net.lat, call.net.lon, call.net)]
  /\ UNCHANGED <<pipeline_vars, call>>

\* get_weather_by_address(address)
GetWeatherByAddress ==
  /\ call.fn = "get_weather_by_address"
  /\ ~returned.done
  /\ returned' = [NotReturned EXCEPT !.done = TRUE,
                                     !.dict = get_weather_by_address(call.address, call.net)]
  /\ UNCHANGED <<pipeline_vars, call>>

NextFn ==
  \/ CalculateSimilarity
  \/ ParsePubDate
  \/ ExtractNewsSource
  \/ ExtractBlogSource
  \/ FormatNewsInfoText
  \/ FormatNewsInfoHtml
  \/ FormatBlogInfoText
  \/ FormatBlogInfoHtml
  \/ GenerateNewsSummary
  \/ GenerateBlogSummary
  \/ GetWeatherByCoordinates
  \/ GetWeatherByAddress

SpecFn == InitFn /\ [][NextFn]_vars

\* ------------------------------------------------------------------------
\* Properties
\* ------------------------------------------------------------------------

\* the request to the feed service failed
Failed == status \in {"http_error", "status_error", "exception"}

\* the loop accepted the i-th item of the feed
Accepted(i) == outcomes[i] = "accepted"

\* the title of the i-th item of the feed is the title of a returned record
Returned(i) == \E j \in 1..Len(result) : result[j].title = articles[i].title

\* the parsed publish date of the i-th item of the feed
Parsed(i) == _parse_pub_date(articles[i].pubDate)

\* the position in filtered_articles of the a-th returned record
Position(a) ==
  CHOOSE i \in 1..Len(filtered_articles) :
     filtered_articles[i].title = result[a].title

\* C1: once the request has succeeded, a failure while one item is processed
\* costs at most that item: the call does not return the fallback record, and
\* every item the loop accepted is returned.
C1_ItemFailureIsolated ==
  (pc = "done" /\ status = "ok") =>
     /\ ~fallback
     /\ max_results >= 1 =>
          \A i \in 1..Len(articles) : Accepted(i) => Returned(i)

\* C2: no two distinct records of a returned list have normalized titles of
\* Jaccard similarity above 0.5.
C2_NoSimilarPairReturned ==
  pc = "done" =>
     \A i, j \in 1..Len(result) :
        i # j => ~SimGt(_calculate_similarity(_normalize_title(result[i].title),
                                              _normalize_title(result[j].title)),
                        1, 2)

\* a returned list of two records, from a feed with an item that was dropped
\* as similar to an earlier one
C2_Witness ==
  /\ pc = "done"
  /\ ~fallback
  /\ Len(result) = 2
  /\ \E i \in 1..Len(articles) : outcomes[i] = "similar"

\* C3: a returned record whose publish date was parsed to a timestamp has a
\* timestamp not older than now - hours_back (so an item with a parsed date
\* older than the cutoff is not returned).
C3_ReturnedNotOlderThanCutoff ==
  (pc = "done" /\ ~fallback) =>
     \A i \in 1..Len(articles) :
        (Accepted(i) /\ Returned(i) /\ Parsed(i).kind \in {"naive", "aware"})
           => Parsed(i).t >= NowHour - hours_back

\* a returned record dated exactly at the cutoff, from a feed with an item
\* that was dropped as too old
C3_Witness ==
  /\ pc = "done"
  /\ ~fallback
  /\ \E i \in 1..Len(articles) : outcomes[i] = "old"
  /\ \E i \in 1..Len(articles) :
        /\ Accepted(i) /\ Returned(i)
        /\ Parsed(i).kind = "naive"
        /\ Parsed(i).t = NowHour - hours_back

\* C4: an item whose publish date cannot be parsed, and that passes the
\* filters before max_results is reached, is returned with the display text
\* for an unknown time, after every record that has a parsed date.
C4_UndatedItemKept ==
  (pc = "done" /\ status = "ok" /\ max_results >= 1) =>
     \A i \in 1..Len(articles) :
        (Accepted(i) /\ Parsed(i).kind = "none") =>
           \E j \in 1..Len(result) :
              /\ result[j].title = articles[i].title
              /\ result[j].pub_date = NoTimeInfo
              /\ \A d \in 1..Len(result) : result[d].pub_date # NoTimeInfo => d < j

\* C5: the returned list has at most max_results records, whatever the
\* outcome of the request.
C5_AtMostMaxResults == pc = "done" => Len(result) <= max_results

\* C6: the list returned after a successful request is ordered by parsed
\* timestamp, newest first, records without a timestamp last, and records
\* with equal timestamps in feed order.
C6_NewestFirstStable ==
  (pc = "done" /\ status = "ok" /\ ~fallback) =>
     \A a, b \in 1..Len(result) :
        a < b =>
          LET pa == filtered_articles[Position(a)].pub_date_raw
              pb == filtered_articles[Position(b)].pub_date_raw
          IN  /\ pa.kind = "none" => pb.kind = "none"
              /\ (pa.kind # "none" /\ pb.kind # "none") =>
                    /\ pa.t >= pb.t
                    /\ pa.t = pb.t => Position(a) < Position(b)

\* three returned records: the sort moved a newer record ahead of an older
\* one, and two records have the same timestamp
C6_Witness ==
  /\ pc = "done"
  /\ ~fallback
  /\ Len(result) = 3
  /\ Position(1) > Position(3)
  /\ \E a \in 1..2 :
        /\ filtered_articles[Position(a)].pub_date_raw.kind = "naive"
        /\ filtered_articles[Position(a)].pub_date_raw
             = filtered_articles[Position(a + 1)].pub_date_raw

\* C7: the summary of every returned record has at most 150 characters.
C7_SummaryAtMost150 ==
  pc = "done" => \A j \in 1..Len(result) : Len(result[j].summary) <= 150

\* C8: the summary of every returned record is a non-empty text, on the
\* path where fetching or summarizing raised too.
C8_SummaryNonEmpty ==
  pc = "done" => \A j \in 1..Len(result) : result[j].summary # <<>>

\* a returned record of an item whose page fetch raised
C8_Witness ==
  /\ pc = "done"
  /\ ~fallback
  /\ \E i \in 1..Len(articles) :
        /\ Accepted(i) /\ Returned(i)
        /\ articles[i].link # <<>>
        /\ articles[i].page.raises

\* C9: when the request raises, answers with a status other than 200, or with
\* a payload whose status is not "ok", the call returns exactly one record:
\* its title holds the keyword and a failure indicator, its link is empty and
\* its source is a system label.
C9_FailureGivesOneFallbackRecord ==
  (pc = "done" /\ Failed) =>
     /\ Len(result) = 1
     /\ Contains(result[1].title, keyword)
     /\ \/ Contains(result[1].title, <<"h_g_eo_m", "h_s_ae_k", " ", "h_s_i_l", "h_p_ae_">>)
        \/ Contains(result[1].title, <<"h_g_a_", "h_j_yeo_", "h__o_l", " ", "h_s_u_", " ",
             "h__eo_ps", "h_s_eu_p", "h_n_i_", "h_d_a_">>)
     /\ result[1].link = <<>>
     /\ result[1].source \in { <<"h_s_i_", "h_s_eu_", "h_t_e_m", " ", "h__a_l", "h_r_i_m">>,
          <<"h_s_i_", "h_s_eu_", "h_t_e_m", " ", "h__o_", "h_r_yu_">> }

\* the news call returned after a payload whose status is not "ok"
C9_Witness ==
  /\ pc = "done"
  /\ pipeline = "news"
  /\ status = "status_error"
  /\ Len(result) = 1
  /\ result[1].source = <<"h_s_i_", "h_s_eu_", "h_t_e_m", " ", "h__a_l", "h_r_i_m">>

\* C10: for max_results >= 1 the call returns the empty list exactly when the
\* request succeeded and no item passed the filters.
C10_EmptyIffNothingPassed ==
  (pc = "done" /\ max_results >= 1) =>
     (result = <<>>
        <=> (status = "ok" /\ \A i \in 1..Len(articles) : ~Accepted(i)))

\* C11: no exception reaches the caller of search_news_by_keyword or
\* search_blogs_by_keyword, whatever the feed service does and whatever the
\* items hold: a call that has ended has returned a list.
C11_NeverRaisesToCaller ==
  /\ pc # "raised"
  /\ pc = "done" => DOMAIN result = 1..Len(result)

\* the call returned after an item with a null description raised in the
\* loop, and the second request of the news fallback raised too
C11_Witness ==
  /\ pc = "done"
  /\ pipeline = "news"
  /\ \E i \in 1..Len(articles) : articles[i].description.none /\ outcomes[i] = "raised"
  /\ result = _fallback_news_search(keyword, max_results, "exception", NowHour)

\* the fetch of the page of the i-th item of the feed failed: it raised, or
\* it returned no text (status other than 200, timeout)
FetchFailed(i) ==
  /\ articles[i].link # <<>>
  /\ articles[i].page.raises \/ articles[i].page.text = <<>>

\* C12: an item whose page fetch failed or whose summarizing raised, and that
\* passed the dedup, ad and time filters, is in the returned list, with the
\* cleaned description as its summary when the fetch raised and the summary
\* made without page text otherwise.
C12_FetchFailureKeepsItem ==
  (pc = "done" /\ status = "ok" /\ max_results >= 1) =>
     \A i \in 1..Len(articles) :
        (Accepted(i) /\ FetchFailed(i)) =>
           \E j \in 1..Len(result) :
              /\ result[j].title = articles[i].title
              /\ result[j].link = articles[i].link
              /\ result[j].summary =
                    IF articles[i].page.raises
                    THEN _clean_description(pipeline, articles[i].description.v)
                    ELSE _generate_summary(pipeline, articles[i].title, <<>>,
                                           articles[i].description.v)

\* C13: every returned record, of the normal path and of the fallback path,
\* has exactly the fields title, summary, source, link and pub_date, and
\* pub_date is a non-empty display text; pub_date_raw is not among them.
C13_ExactlyFiveFields ==
  pc = "done" =>
     \A j \in 1..Len(result) :
        /\ DOMAIN result[j] = {"title", "summary", "source", "link", "pub_date"}
        /\ DOMAIN result[j].pub_date = 1..Len(result[j].pub_date)
        /\ result[j].pub_date # <<>>

\* two records returned on the normal path, one with a parsed timestamp and
\* one without
C13_Witness ==
  /\ pc = "done"
  /\ ~fallback
  /\ Len(result) = 2
  /\ \E a, b \in 1..Len(filtered_articles) :
        /\ filtered_articles[a].pub_date_raw.kind = "naive"
        /\ filtered_articles[b].pub_date_raw.kind = "none"

\* &name; or &#number; at position p of text
EntityAt(text, p) ==
  /\ text[p] = "&"
  /\ \E q \in (p + 2)..Len(text) :
        /\ text[q] = ";"
        /\ \A k \in (p + 1)..(q - 1) :
              IsAsciiLetter(text[k]) \/ IsDigit(text[k]) \/ text[k] = "#"

\* text holds a tag-like sequence or an entity
HasMarkup(text) == \E p \in 1..Len(text) : TagAt(text, p) > 0 \/ EntityAt(text, p)

\* C14: the title of every record returned on the normal path holds no tag
\* and no entity, and no item is accepted whose title is empty once its tags
\* are removed and it is trimmed.
C14_TitleMarkupStripped ==
  (pc = "done" /\ ~fallback) =>
     /\ \A j \in 1..Len(result) : ~HasMarkup(result[j].title)
     /\ \A i \in 1..Len(articles) :
           Accepted(i) => Strip(RemoveMatches(articles[i].title, TagAt)) # <<>>

\* the token set of a string: its maximal runs of characters that are not
\* whitespace
Tokens(s) == {SubSeq(s, q[1], q[2]) : q \in {r \in (1..Len(s)) \X (1..Len(s)) : /\ r[1] <= r[2] /\ (\A k \in r[1]..r[2] : ~IsSpace(s[k])) /\ (r[1] = 1 \/ IsSpace(s[r[1] - 1])) /\ (r[2] = Len(s) \/ IsSpace(s[r[2] + 1]))}}

\* two fractions are the same number
SimEq(x, y) == x[1] * y[2] = y[1] * x[2]

\* C15: _calculate_similarity(a, b) is |T(a) \cap T(b)| / |T(a) \cup T(b)| for
\* the whitespace-separated token sets T; it is 1 when both token sets are
\* empty, 0 when exactly one is empty or the sets are disjoint, and always
\* lies between 0 and 1.
C15_JaccardOfTokenSets ==
  (returned.done /\ call.fn = "_calculate_similarity") =>
     LET A == Tokens(call.str1)
         B == Tokens(call.str2)
         sim == returned.similarity
     IN  /\ sim[2] > 0 /\ 0 <= sim[1] /\ sim[1] <= sim[2]
         /\ (A = {} /\ B = {}) => sim[1] = sim[2]
         /\ (A \cup B # {}) => sim[1] * Cardinality(A \cup B) = Cardinality(A \cap B) * sim[2]
         /\ (((A = {}) # (B = {})) \/ (A \cup B # {} /\ A \cap B = {})) => sim[1] = 0

\* "a b" against "a b c": two of three tokens are shared
C15_Witness ==
  /\ returned.done
  /\ call.fn = "_calculate_similarity"
  /\ call.str1 = <<"a", " ", "b">>
  /\ call.str2 = <<"a", " ", "b", " ", "c">>
  /\ returned.similarity = <<2, 3>>

\* C16: _calculate_similarity(a, a) is 1 for every a, the empty string
\* included, and _calculate_similarity(a, b) = _calculate_similarity(b, a).
C16_ReflexiveSymmetric ==
  (returned.done /\ call.fn = "_calculate_similarity") =>
     /\ SimEq(returned.similarity, _calculate_similarity(call.str2, call.str1))
     /\ (call.str1 = call.str2) => returned.similarity[1] = returned.similarity[2]

\* "a b c" against "a": one of three tokens, in this order of the arguments
C16_Witness ==
  /\ returned.done
  /\ call.fn = "_calculate_similarity"
  /\ call.str1 = <<"a", " ", "b", " ", "c">>
  /\ call.str2 = <<"a">>
  /\ returned.similarity = <<1, 3>>

\* the Jaccard similarity of the normalized titles of the i-th and the j-th
\* item of the feed
TitleSimilarity(i, j) == _calculate_similarity(_normalize_title(articles[i].title), _normalize_title(articles[j].title))

AdTermIn(content) == \E k \in 1..Len(ad_keywords) : \E p \in 1..(Len(content) + 1 - Len(ad_keywords[k])) : \A q \in 1..Len(ad_keywords[k]) : content[p + q - 1] = ad_keywords[k][q]

\* a term of the promotional vocabulary occurs in the lower-cased text of
\* title, one blank and description
HasAdTerm(title, description) == AdTermIn(Lower(title \o <<" ">> \o description))

\* C18: _is_ad_or_promotional(title, description) holds exactly when a term
\* of the promotional vocabulary is a substring of lower(title + " " +
\* description), and no record returned on the normal path comes from an item
\* whose title and description it holds for.
C18_NoPromotionalRecord ==
  \A i \in 1..Len(articles) :
     ~articles[i].description.none =>
        LET Check(ad) ==
              /\ _is_ad_or_promotional(articles[i].title, articles[i].description.v) <=> ad
              /\ outcomes[i] = "ad" => ad
              /\ Accepted(i) => ~ad
              /\ (pc = "done" /\ ~fallback /\ ad) =>
                    \A j \in 1..Len(result) :
                       result[j].title # articles[i].title \/ result[j].link # articles[i].link
        IN  Check(HasAdTerm(articles[i].title, articles[i].description.v))

\* "k [PR]" and the item described as "(Pr) ..." are dropped, "e f g" between
\* them is the one record returned
C18_Witness ==
  /\ pc = "done" /\ ~fallback
  /\ outcomes = <<"ad", "accepted", "ad">>
  /\ articles[1].title = <<"k", " ", "[", "P", "R", "]">>
  /\ articles[3].title = <<"n">>
  /\ Len(result) = 1
  /\ result[1].title = articles[2].title

\* C19: _parse_pub_date returns a timestamp or None and never raises, for
\* every string and for None: the empty string, text in no known format and
\* the Korean pattern with a month or a day out of range give None.
C19_ParseNeverRaises ==
  (returned.done /\ call.fn = "_parse_pub_date" /\ call.date_str.fmt # "number") =>
     /\ returned.date.kind \in {"none", "naive", "aware"}
     /\ call.date_str.fmt \in {"empty", "garbage", "korean_invalid"} => returned.date = NoDate

\* "2024년 13월 45일" was parsed to None
C19_Witness ==
  /\ returned.done
  /\ call.fn = "_parse_pub_date"
  /\ call.date_str.fmt = "korean_invalid"
  /\ returned.date = NoDate

\* the format classes the date parser is said to accept
ListedFormats == {"rss_tzname", "rfc2822_offset", "iso_offset", "iso_naive", "compact", "ymd_hms", "ymd"}

\* C20: _parse_pub_date returns a timestamp for every well-formed input of
\* the listed format classes (RSS date, ISO-8601 with and without offset,
\* YYYYMMDD, YYYY-MM-DD HH:MM:SS, date only), decided by the first format of
\* the list that matches; the Korean pattern is tried when none matches.
C20_ListedFormatsParse ==
  (returned.done /\ call.fn = "_parse_pub_date") =>
     /\ call.date_str.fmt \in ListedFormats =>
           /\ returned.date.kind \in {"naive", "aware"}
           /\ \E k \in 1..Len(formats) :
                 /\ returned.date = strptime(call.date_str, formats[k])
                 /\ \A j \in 1..(k - 1) : formats[j] # call.date_str.fmt
     /\ call.date_str.fmt = "korean" =>
           returned.date = [kind |-> "naive", t |-> call.date_str.t - (call.date_str.t % 24), off |-> 0]

\* the publisher a structured hint names: the title of a dict, else its name,
\* or a plain string; <<>> when it names none
HintName(source_info) == IF source_info.kind = "str" THEN source_info.title ELSE IF source_info.kind = "other" THEN <<>> ELSE IF source_info.has_title /\ source_info.title # <<>> THEN source_info.title ELSE IF source_info.has_name THEN source_info.name ELSE <<>>

\* the publisher the host of the link gives, <<>> when the link has no host
HostSource(link) == IF link # <<>> /\ NetLoc(link) # <<>> THEN DomainSource(link) ELSE <<>>

\* the bracketed or parenthesized publisher in the text, <<>> when none
BracketName(text) == FirstFound(BracketSourceMatch(text, "(", ")", BracketSuffixes), BracketSourceMatch(text, "[", "]", BracketSuffixes))

\* the priority chain: hint, marker in the title, host of the link, bracketed
\* name in title and description, placeholder
PriorityChain(source_info, title, description, link) == FirstFound(HintName(source_info), FirstFound(TitleSourceMatch(title), FirstFound(HostSource(link), FirstFound(BracketName(title \o <<" ">> \o description), UnknownSource))))

\* C21: the source of a news item is the first that matches of: the publisher
\* named by the structured hint, the publisher marker of the title, the
\* publisher of the link's domain, a bracketed or parenthesized publisher in
\* title and description, the placeholder.
C21_SourcePriorityChain ==
  (returned.done /\ call.fn = "news_source") =>
     returned.text = PriorityChain(call.source_info, call.title, call.description, call.link)

\* the title carries a platform marker
HasPlatformMarker(title) == Contains(title, NaverBlog) \/ Contains(title, Tistory) \/ Contains(title, Brunch) \/ Contains(Lower(title), <<"b", "r", "u", "n", "c", "h">>) \/ Contains(Lower(title), <<"n", "a", "v", "e", "r">>)

\* the label is a platform name, or at most 30 characters of the title
\* followed by "... (platform)"
TitleDerived(label, title) == \E platform \in {NaverBlog, Tistory, Brunch} : label = platform \/ \E n \in 0..30 : n <= Len(title) /\ label = SubSeq(title, 1, n) \o <<".", ".", ".", " ", "(">> \o platform \o <<")">>

\* the host of the link is <name>.tistory.com
TistoryName(link) == IF EndsWith(Lower(NetLoc(link)), <<".", "t", "i", "s", "t", "o", "r", "y", ".", "c", "o", "m">>) THEN SubSeq(Lower(NetLoc(link)), 1, Len(NetLoc(link)) - 12) ELSE <<>>

\* C22: _extract_blog_source gives a label with <name> and the Tistory label
\* for a link to <name>.tistory.com when the title has no platform marker,
\* "블로그" for an empty link, title and description, and for a title with a
\* platform marker the label derived from the title, whatever the link is,
\* with at most 30 characters of the title in it.
C22_BlogSourceLabel ==
  (returned.done /\ call.fn = "_extract_blog_source") =>
     /\ (TistoryName(call.link) # <<>> /\ ~HasPlatformMarker(call.title)) =>
           Contains(returned.text, TistoryName(call.link)) /\ Contains(returned.text, Tistory)
     /\ (call.link = <<>> /\ call.title = <<>> /\ call.description = <<>>) =>
           returned.text = DefaultBlogSource
     /\ HasPlatformMarker(call.title) =>
           /\ TitleDerived(returned.text, call.title)
           /\ \A c \in Calls :
                 (c.fn = call.fn /\ c.title = call.title /\ c.description = call.description) =>
                    returned.text = _extract_blog_source(c.link, c.title, c.description)

\* a title of 43 characters before ": 네이버 블로그", with a tistory link:
\* the label holds the first 30 characters of the title
C22_Witness ==
  /\ returned.done
  /\ call.fn = "_extract_blog_source"
  /\ TistoryName(call.link) # <<>>
  /\ Contains(call.title, NaverBlog)
  /\ Len(call.title) > 40
  /\ returned.text = SubSeq(call.title, 1, 30) \o <<".", ".", ".", " ", "(">> \o NaverBlog \o <<")">>

\* "검색 결과가 없습니다"
NoResultsText == <<"h_g_eo_m", "h_s_ae_k", " ", "h_g_yeo_l", "h_g_wa_", "h_g_a_", " ", "h__eo_ps", "h_s_eu_p", "h_n_i_", "h_d_a_">>

\* "링크"
LinkWord == <<"h_r_i_ng", "h_k_eu_">>

\* the line begins an entry: after its indentation a number, ". " and a title
IsEntryStart(l) == \E d \in 1..(Len(l) - 2) : (\A j \in 1..d : IsDigit(l[j])) /\ l[d + 1] = "." /\ l[d + 2] = " "

\* the lines that begin an entry
EntryStarts(out) == {k \in 1..Len(out) : IsEntryStart(LStrip(out[k]))}

\* the i-th smallest member of a set of numbers
Nth(S, i) == CHOOSE x \in S : Cardinality({y \in S : y <= x}) = i

\* the lines of the i-th entry: from its first line up to the next entry
EntryLines(out, starts, i) == Nth(starts, i)..(IF i < Cardinality(starts) THEN Nth(starts, i + 1) - 1 ELSE Len(out))

\* a line of the i-th entry holds the text
EntryShows(out, starts, i, text) == \E k \in EntryLines(out, starts, i) : Contains(out[k], text)

\* the lines out render the list for the keyword kw, with entries at starts
Rendered(out, starts, news_list, kw) ==
  LET n == Len(news_list)
  IN  /\ Cardinality(starts) = n
      /\ \E k \in 1..Len(out) :
            /\ Contains(out[k], kw)
            /\ IF n = 0 THEN \E j \in k..Len(out) : Contains(out[j], NoResultsText)
               ELSE /\ Contains(out[k], <<"(">> \o NatText(n) \o <<"h_g_eo_n", ")">>)
                    /\ k < Nth(starts, 1)
      /\ n > 0 => \A k \in 1..Len(out) : ~Contains(out[k], NoResultsText)
      /\ \A i \in 1..n :
            /\ Strip(out[Nth(starts, i)])
                  = NatText(i) \o <<".", " ">> \o Get(news_list[i], "title", Placeholders.title)
            /\ EntryShows(out, starts, i, Get(news_list[i], "summary", Placeholders.summary))
            /\ EntryShows(out, starts, i, Get(news_list[i], "source", Placeholders.source))
            /\ EntryShows(out, starts, i, Get(news_list[i], "pub_date", NoTimeInfo))
            /\ EntryShows(out, starts, i, LinkWord) <=> Get(news_list[i], "link", <<>>) # <<>>
            /\ Get(news_list[i], "link", <<>>) # <<>> =>
                  \E k \in EntryLines(out, starts, i) :
                     Contains(out[k], LinkWord) /\ Contains(out[k], news_list[i].link)

\* C23: each of the four renderers gives, for an empty list, a no-results
\* message with the keyword and no entry; for n >= 1 records a header with
\* the count n and exactly n entries numbered 1..n in list order, each with
\* its title, summary, source and date; an entry has a link line or anchor
\* exactly when the record's link is not empty, and a record without the
\* link key is rendered like one with an empty link.
C23_RenderersListEveryRecord ==
  (returned.done /\ call.fn \in Renderers) =>
     Rendered(returned.lines, EntryStarts(returned.lines), call.news_list, call.keyword)

\* three records in HTML: the first with a link, the second with an empty
\* link, the third without the key; one anchor is written
C23_Witness ==
  /\ returned.done
  /\ call.fn = "format_news_info_html"
  /\ Len(call.news_list) = 3
  /\ Get(call.news_list[1], "link", <<>>) # <<>>
  /\ "link" \in DOMAIN call.news_list[2] /\ call.news_list[2].link = <<>>
  /\ "link" \notin DOMAIN call.news_list[3]
  /\ Cardinality({k \in 1..Len(returned.lines) : Contains(returned.lines[k], <<"<", "a", " ", "h", "r", "e", "f", "=">>)}) = 1

\* the keys every weather dict is to hold
WeatherKeys == {"temperature", "humidity", "wind_speed", "condition", "status", "time_range"}

\* C24: get_weather_by_address returns on every path a dict with the keys
\* temperature, humidity, wind_speed, condition, status, address and
\* time_range; get_weather_by_coordinates returns on every path a dict with
\* those keys except address, its time_range being "19:00~21:00".
C24_WeatherDictKeys ==
  /\ (returned.done /\ call.fn = "get_weather_by_address") =>
        WeatherKeys \cup {"address"} \subseteq DOMAIN returned.dict
  /\ (returned.done /\ call.fn = "get_weather_by_coordinates") =>
        /\ WeatherKeys \subseteq DOMAIN returned.dict
        /\ returned.dict.time_range = <<"1", "9", ":", "0", "0", "~", "2",
                                        "1",
                                        ":",
                                        "0",
                                        "0">>

\* the forecast has a value for one of today's hours 19, 20, 21
HourlyValues(net) ==
  \E i \in 1..Len(net.hourly.time) :
     /\ net.hourly.time[i].day = 0
     /\ net.hourly.time[i].hour \in {19, 20, 21}
     /\ i <= Len(net.hourly.temperature_2m)

\* C30: get_weather_by_coordinates reports status "success" only when values
\* were obtained from the 19:00-21:00 hourly entries or from the
\* current-conditions request; with no such hourly entry and a
\* current-conditions status other than 200 the status is "error".
C30_SuccessOnlyWithValues ==
  (returned.done /\ call.fn = "get_weather_by_coordinates") =>
     /\ returned.dict.status = "success" =>
           /\ call.net.forecast = "ok"
           /\ HourlyValues(call.net) \/ call.net.current = "ok"
     /\ (call.net.forecast = "ok" /\ ~HourlyValues(call.net) /\ call.net.current = "error") =>
           returned.dict.status = "error"

\* C28: the source of a news record is a non-empty string for every form of
\* the upstream source hint.
C28_SourceNeverEmpty ==
  (returned.done /\ call.fn = "news_source") => returned.text # <<>>

\* C29: a publisher of the known-domain table is returned only for a link
\* with a non-empty host; a non-empty link without a host matches no entry of
\* the table and the later strategies decide, as they do for an empty link.
C29_NoHostNoTableMatch ==
  (/\ returned.done
   /\ call.fn = "news_source"
   /\ _extract_source(call.source_info) = UnknownSource
   /\ call.link # <<>>
   /\ NetLoc(call.link) = <<>>) =>
     returned.text = _extract_source_from_title_and_description(call.title, call.description, <<>>)

\* the kept sentences of the page text, each with its score
KeptSentences(fn, title, content) == IF fn = "news_utils._generate_summary" THEN MeaningfulSentences(title, content, NewsMeaningful) ELSE MeaningfulSentences(title, content, BlogMeaningful)

\* r ranks the sentences of ms: by descending score, equal scores in the
\* original order
IsRanking(ms, r) ==
  /\ \A a, b \in 1..Len(ms) : a # b => r[a] # r[b]
  /\ \A a, b \in 1..Len(ms) :
        a < b => \/ ms[r[a]][2] > ms[r[b]][2]
                 \/ ms[r[a]][2] = ms[r[b]][2] /\ r[a] < r[b]

\* the sentences ranked a and a + 1 joined by ". "
RankedPair(ms, r, a) == IF a + 1 <= Len(ms) THEN ms[r[a]][1] \o <<".", " ">> \o ms[r[a + 1]][1] ELSE ms[r[a]][1]

\* the summary repeats the title: similarity above 0.7
RepeatsTitle(title, summary) == SimGt(_calculate_similarity(_normalize_title(title), _normalize_title(summary)), 7, 10)

\* the summary the ranking r gives
RankedSummary(title, ms, r) == IF RepeatsTitle(title, RankedPair(ms, r, 1)) /\ Len(ms) >= 3 THEN RankedPair(ms, r, 2) ELSE RankedPair(ms, r, 1)

\* C25: for a page text of more than 50 characters with a kept sentence,
\* the summary is made of the two sentences ranked first by descending score,
\* equal scores in their original order, joined by ". "; of those ranked
\* second and third when the first choice has similarity above 0.7 with the
\* title and three sentences were kept; it is then clipped or ended by a
\* period.
C25_SummaryOfRankedSentences ==
  LET Check(ms) ==
        (Len(call.content) > 50 /\ ms # <<>>) =>
           \E r \in [1..Len(ms) -> 1..Len(ms)] :
              /\ IsRanking(ms, r)
              /\ returned.text = ClipSummary(RankedSummary(call.title, ms, r))
  IN (returned.done /\ call.fn \in Summarizers) =>
        Check(KeptSentences(call.fn, call.title, call.content))

\* three kept sentences, the best of them first, and the summary is made of
\* the second and the third
C25_Witness ==
  LET Second(ms) ==
        /\ Len(ms) = 3
        /\ ms[1][2] > ms[2][2]
        /\ RepeatsTitle(call.title, ms[1][1] \o <<".", " ">> \o ms[2][1])
        /\ returned.text = ms[2][1] \o <<".", " ">> \o ms[3][1] \o <<".">>
  IN /\ returned.done
     /\ call.fn = "news_utils._generate_summary"
     /\ Second(KeptSentences(call.fn, call.title, call.content))

\* the fixed placeholder of the module
FixedPlaceholder(fn) == IF fn = "news_utils._generate_summary" THEN NewsSeeArticle \o <<".">> ELSE BlogDefaultSummary

\* the description cleaned by the module's _clean_description
Cleaned(fn, description) == IF fn = "news_utils._generate_summary" THEN news_clean_description(description) ELSE blog_clean_description(description)

\* C26: when the page text gives no summary, the result is the cleaned
\* description if that has at least 20 characters and similarity below 0.8
\* with the title, and otherwise the one fixed placeholder, whatever the
\* title is.
C26_PlaceholderOrDescription ==
  LET Check(ms, cleaned) ==
        ~(Len(call.content) > 50 /\ ms # <<>>) =>
           IF /\ call.description # <<>>
              /\ Len(cleaned) >= 20
              /\ cleaned \notin {NewsSeeArticle, BlogSeeArticle, NoSummaryInfo}
              /\ SimLt(_calculate_similarity(_normalize_title(call.title), _normalize_title(cleaned)), 8, 10)
           THEN returned.text = cleaned
           ELSE returned.text = FixedPlaceholder(call.fn)
  IN (returned.done /\ call.fn \in Summarizers) =>
        Check(KeptSentences(call.fn, call.title, call.content), Cleaned(call.fn, call.description))

\* the number of items among the first i of the feed that the loop accepted
AcceptedUpTo(i) == Cardinality({j \in 1..i : Accepted(j)})

\* the titles of the items the loop accepted, in feed order
AcceptedTitles == [i \in 1..AcceptedUpTo(Len(articles)) |-> KeepIdx(articles, {j \in 1..Len(articles) : Accepted(j)})[i].title]

\* C27: for max_results >= 1 the loop takes the items in feed order and
\* stops right after the max_results-th acceptance; the records returned
\* after a successful request are those of the first max_results items that
\* pass the filters; a page is asked for only for an item that passed the
\* filters and has a link, never for an item after the stop.
C27_FeedOrderEarlyStop ==
  max_results >= 1 =>
     /\ Len(fetched) = Len(articles)
     /\ \A i \in 1..Len(articles) :
           /\ i < Len(articles) => AcceptedUpTo(i) < max_results
           /\ fetched[i] => Accepted(i) /\ articles[i].link # <<>>
     /\ pc = "loop" => AcceptedUpTo(Len(articles)) < max_results
     /\ [i \in 1..Len(filtered_articles) |-> filtered_articles[i].title] = AcceptedTitles
     /\ (pc = "done" /\ status = "ok") =>
           /\ Len(result) = Len(AcceptedTitles)
           /\ {result[j].title : j \in 1..Len(result)}
                = {AcceptedTitles[i] : i \in 1..Len(AcceptedTitles)}

====
